---- MODULE Spec2Model ----
(***************************************************************************)
(* Model of the helpers of the contact-list test suite that carry logic    *)
(* of their own:                                                           *)
(*   - TestUtils.retry / TestUtils.wait   (tests/api/utils/testUtils.ts)   *)
(*   - EnvironmentManager                 (tests/config/environmentManager)*)
(*   - UserClient and the userClient fixture (tests/api/clients,           *)
(*     tests/fixtures.ts), with the server as the API tests describe it    *)
(*   - waitForApiResponse                 (tests/helpers/apiHelpers.ts)    *)
(* Strings are modelled as sequences of tokens: a token is either one of   *)
(* the special characters "=", "#", " ", "\n" or a maximal run of other    *)
(* characters ("BASE_URL", "5000", ...).                                   *)
(***************************************************************************)
EXTENDS Integers, Sequences, FiniteSets, TLC

VARIABLES retry, currentEnvironment, configCache, files, initialized,
          nextId, reads, lastOp, watch, client, parse, session, poll

retryVars == <<retry>>
\* what the callers of the environment manager hold, and the UserClient
\* the parser under test, the test session against the server, and the
\* call of waitForApiResponse
helperVars == <<parse, session, poll>>
callerVars == <<watch, client, helperVars>>
envVars == <<currentEnvironment, configCache, files, initialized, nextId, reads, lastOp,
             watch, client, parse, session, poll>>
vars == <<retry, currentEnvironment, configCache, files, initialized, nextId, reads, lastOp,
          watch, client, parse, session, poll>>

(***************************************************************************)
(* Bounds                                                                  *)
(***************************************************************************)
\* largest maxAttempts argument explored
MaxAttemptsBound == 3
\* cap on the number of source reads counted per environment name
MaxReads == 2
\* largest number of lines put together into a source for the parser
MaxLines == 3

(***************************************************************************)
(* TestUtils.retry                                                         *)
(***************************************************************************)
\* the two concurrent calls of retry that are followed
Runs == {1, 2}
\* baseDelay arguments explored (milliseconds)
BaseDelays == {0, 50, 100}
\* maxAttempts arguments explored, zero and a negative one included
AttemptArgs == (0 - 1)..MaxAttemptsBound
\* error objects fn may raise, values fn may return
Errors == {"e1", "e2"}
Values == {"v1", "v2"}
\* the value of the unassigned local `lastError`
Undefined == "undefined"
\* no outcome yet
None == "none"

\* Math.pow(2, n) for a natural n
RECURSIVE Pow2(_)
Pow2(n) == IF n <= 0 THEN 1 ELSE 2 * Pow2(n - 1)

RECURSIVE SumSeq(_)
SumSeq(s) == IF s = <<>> THEN 0 ELSE Head(s) + SumSeq(Tail(s))

\* for (...; attempt <= maxAttempts; ...)
LoopCond(attempt, maxAttempts) == attempt <= maxAttempts

\* IsLastAttempt that lets the last failure fall through to one more wait
IsLastAttempt_Late(attempt, maxAttempts) == attempt > maxAttempts

\* if (attempt === maxAttempts) throw lastError
IsLastAttempt(attempt, maxAttempts) == attempt = maxAttempts

\* BackoffDelay with the exponent off by one
BackoffDelay_OffByOne(baseDelay, attempt) == baseDelay * Pow2(attempt)

\* const delay = baseDelay * Math.pow(2, attempt - 1)
BackoffDelay(baseDelay, attempt) == baseDelay * Pow2(attempt - 1)

\* the locals of a call that has not started
IdleRun ==
  [pc |-> "idle", maxAttempts |-> 0, baseDelay |-> 0, attempt |-> 0,
   lastError |-> Undefined, calls |-> 0, inflight |-> 0,
   errs |-> <<>>, waits |-> <<>>, timers |-> 0, fnValue |-> None,
   result |-> None, thrown |-> None, raises |-> 0]

\* EnterAttempt of a do-while loop: the first attempt is made before the
\* loop condition is looked at
EnterAttempt_DoWhile(st, attempt) ==
  IF attempt = 1 \/ LoopCond(attempt, st.maxAttempts)
  THEN [st EXCEPT !.pc = "calling", !.attempt = attempt,
                  !.calls = @ + 1, !.inflight = @ + 1]
  ELSE [st EXCEPT !.pc = "raised", !.attempt = attempt,
                  !.thrown = st.lastError, !.raises = @ + 1]

\* entering the loop body at `attempt`: invoke fn, or fall out of the loop
\* to the final `throw lastError!`
EnterAttempt(st, attempt) ==
  IF LoopCond(attempt, st.maxAttempts)
  THEN [st EXCEPT !.pc = "calling", !.attempt = attempt,
                  !.calls = @ + 1, !.inflight = @ + 1]
  ELSE [st EXCEPT !.pc = "raised", !.attempt = attempt,
                  !.thrown = st.lastError, !.raises = @ + 1]

\* retry(fn, maxAttempts, baseDelay) is called: runs up to the first await
StartRetry(r, m, d) ==
  /\ retry[r].pc = "idle"
  /\ retry' = [retry EXCEPT ![r] =
        EnterAttempt([@ EXCEPT !.maxAttempts = m, !.baseDelay = d], 1)]
  /\ UNCHANGED envVars

\* FnReturn without the `return`: the value is dropped and the loop goes on
FnReturn_NoReturn(r, v) ==
  /\ retry[r].pc = "calling"
  /\ retry' = [retry EXCEPT ![r] =
        EnterAttempt([@ EXCEPT !.inflight = @ - 1, !.fnValue = v],
                     retry[r].attempt + 1)]
  /\ UNCHANGED envVars

\* `return await fn()` when fn's promise fulfils with v
FnReturn(r, v) ==
  /\ retry[r].pc = "calling"
  /\ retry' = [retry EXCEPT ![r] =
        [@ EXCEPT !.pc = "returned", !.inflight = @ - 1,
                  !.fnValue = v, !.result = v]]
  /\ UNCHANGED envVars

\* the catch block with a parameter for the variations below:
\*   awaited  - the backoff wait is awaited before the next attempt
\*   giveUp   - the condition under which the error is raised at once
\*   which    - the error that is raised
\*   swallow  - the final failure completes the call without an error
CatchBlock(r, e, awaited, giveUp(_), which(_), swallow) ==
  /\ retry[r].pc = "calling"
  /\ LET st == [retry[r] EXCEPT !.inflight = @ - 1, !.lastError = e,
                                !.errs = Append(@, e)]
         w  == [st EXCEPT !.pc = "waiting", !.timers = @ + 1,
                          !.waits = Append(@, BackoffDelay(st.baseDelay, st.attempt))]
     IN retry' = [retry EXCEPT ![r] =
          IF giveUp(st)
          THEN IF swallow THEN [st EXCEPT !.pc = "returned"]
               ELSE [st EXCEPT !.pc = "raised", !.thrown = which(st),
                               !.raises = @ + 1]
          ELSE IF awaited THEN w ELSE EnterAttempt(w, st.attempt + 1)]
  /\ UNCHANGED envVars

LastGiveUp(st) == IsLastAttempt(st.attempt, st.maxAttempts)
LastErrorOf(st) == st.lastError

\* FnRaise without `await` before this.wait(delay)
FnRaise_NoAwait(r, e) == CatchBlock(r, e, FALSE, LastGiveUp, LastErrorOf, FALSE)

\* FnRaise raising the first error seen instead of the last
FirstErrorOf(st) == Head(st.errs)
FnRaise_FirstError(r, e) == CatchBlock(r, e, TRUE, LastGiveUp, FirstErrorOf, FALSE)

\* FnRaise swallowing the final failure
FnRaise_Swallow(r, e) == CatchBlock(r, e, TRUE, LastGiveUp, LastErrorOf, TRUE)

\* FnRaise that gives up at once on error "e2" (selective retry)
SelectiveGiveUp(st) == LastGiveUp(st) \/ st.lastError = "e2"
FnRaise_Selective(r, e) == CatchBlock(r, e, TRUE, SelectiveGiveUp, LastErrorOf, FALSE)

\* the catch block, when fn's promise rejects with e
FnRaise(r, e) ==
  /\ retry[r].pc = "calling"
  /\ LET st == [retry[r] EXCEPT !.inflight = @ - 1, !.lastError = e,
                                !.errs = Append(@, e)]
     IN retry' = [retry EXCEPT ![r] =
          IF IsLastAttempt(st.attempt, st.maxAttempts)
          THEN [st EXCEPT !.pc = "raised", !.thrown = st.lastError,
                          !.raises = @ + 1]
          ELSE [st EXCEPT !.pc = "waiting", !.timers = @ + 1,
                          !.waits = Append(@, BackoffDelay(st.baseDelay, st.attempt))]]
  /\ UNCHANGED envVars

\* TimerElapse of a wait whose promise is never resolved: the timer fires
\* and the call stays suspended
TimerElapse_NoResolve(r) ==
  /\ retry[r].pc = "waiting"
  /\ retry[r].timers > 0
  /\ retry' = [retry EXCEPT ![r] = [@ EXCEPT !.timers = @ - 1]]
  /\ UNCHANGED envVars

\* TestUtils.wait: the timer set by the catch block fires, the loop goes on
TimerElapse(r) ==
  /\ retry[r].pc = "waiting"
  /\ retry' = [retry EXCEPT ![r] =
        EnterAttempt([@ EXCEPT !.timers = @ - 1], retry[r].attempt + 1)]
  /\ UNCHANGED envVars

RetryDone(r) == retry[r].pc \in {"returned", "raised"}


(***************************************************************************)
(* Strings as token sequences                                              *)
(***************************************************************************)
\* String.prototype.trim: whitespace tokens
IsSpace(t) == t = " "

\* position of the first occurrence of token t in s, 0 when there is none
IndexOf(s, t) ==
  IF \E i \in 1..Len(s) : s[i] = t
  THEN CHOOSE i \in 1..Len(s) : s[i] = t /\ \A j \in 1..(i - 1) : s[j] # t
  ELSE 0

\* String.prototype.split(sep): always at least one part
RECURSIVE Split(_, _)
Split(s, sep) ==
  LET i == IndexOf(s, sep)
  IN IF i = 0 THEN <<s>>
     ELSE <<SubSeq(s, 1, i - 1)>> \o Split(SubSeq(s, i + 1, Len(s)), sep)

\* Array.prototype.join(sep)
RECURSIVE Join(_, _)
Join(parts, sep) ==
  IF parts = <<>> THEN <<>>
  ELSE IF Len(parts) = 1 THEN parts[1]
  ELSE parts[1] \o <<sep>> \o Join(Tail(parts), sep)

RECURSIVE TrimLeft(_)
TrimLeft(s) == IF s # <<>> /\ IsSpace(Head(s)) THEN TrimLeft(Tail(s)) ELSE s

RECURSIVE TrimRight(_)
TrimRight(s) ==
  IF s # <<>> /\ IsSpace(s[Len(s)]) THEN TrimRight(SubSeq(s, 1, Len(s) - 1)) ELSE s

\* String.prototype.trim
Trim(s) == TrimRight(TrimLeft(s))

\* the property read envVars[key] / envVars.KEY: the string stored under
\* key, or undefined (defined = FALSE)
Lookup(envv, key) ==
  IF key \in DOMAIN envv THEN [defined |-> TRUE, value |-> envv[key]]
  ELSE [defined |-> FALSE, value |-> <<>>]

\* a property value is falsy: undefined or the empty string
Falsy(x) == ~x.defined \/ x.value = <<>>

\* x || d, for a property value x and a string d
OrDefault(x, d) == IF Falsy(x) THEN d ELSE x.value

\* x === lit, for a property value x and a string lit
StrictEq(x, lit) == x.defined /\ x.value = lit

\* the number NaN, which no numeral of the sources denotes
NaN == 0 - 1

\* numerals that occur in the sources explored, with their values
NumeralValue(t) ==
  CASE t = "0" -> 0
    [] t = "1" -> 1
    [] t = "9" -> 9
    [] t = "5000" -> 5000
    [] t = "30000" -> 30000
    [] OTHER -> NaN

\* parseInt(v, 10) of a trimmed, non-empty string: the leading numeral
ParseInt(v) == IF v = <<>> THEN NaN ELSE NumeralValue(Head(v))

(***************************************************************************)
(* EnvironmentManager                                                      *)
(***************************************************************************)
\* ['local', 'qa', 'staging', 'production']
Recognized == {"local", "qa", "staging", "production"}
AllNames == Recognized \cup {"QA", "dev"}
\* getConfig() / validateEnvironment() without an argument
NoArg == "noarg"
\* an environment variable that is not set
Unset == "unset"
\* no file at the path / a file holding `content`
Absent == [exists |-> FALSE, content |-> <<>>]
FileWith(content) == [exists |-> TRUE, content |-> content]

\* ToLowerCase that leaves the name as it is
ToLowerCase_Identity(n) == n

\* String.prototype.toLowerCase on the names explored
ToLowerCase(n) == IF n = "QA" THEN "qa" ELSE n

\* for (const key of required)
Required == <<"BASE_URL", "API_TIMEOUT", "TEST_USER_EMAIL_PREFIX", "TEST_USER_PASSWORD">>

\* ParseLine without the test for comment lines
ParseLine_NoCommentSkip(line, envv) ==
  LET trimmed == Trim(line)
  IN IF trimmed = <<>> THEN envv
     ELSE LET parts == Split(trimmed, "=")
              key   == parts[1]
              value == Trim(Join(Tail(parts), "="))
          IN IF key # <<>> THEN (key :> value) @@ envv ELSE envv

\* ParseLine that keeps the first value of a key
ParseLine_FirstWins(line, envv) ==
  LET trimmed == Trim(line)
  IN IF trimmed = <<>> \/ Head(trimmed) = "#" THEN envv
     ELSE LET parts == Split(trimmed, "=")
              key   == parts[1]
              value == Trim(Join(Tail(parts), "="))
          IN IF key # <<>> THEN envv @@ (key :> value) ELSE envv

\* ParseLine that takes the text between the first and the second '=' as
\* the value: `const [key, value] = trimmed.split('=')`
ParseLine_SecondPart(line, envv) ==
  LET trimmed == Trim(line)
  IN IF trimmed = <<>> \/ Head(trimmed) = "#" THEN envv
     ELSE LET parts == Split(trimmed, "=")
              key   == parts[1]
              value == IF Len(parts) >= 2 THEN Trim(parts[2]) ELSE <<>>
          IN IF key # <<>> THEN (key :> value) @@ envv ELSE envv

\* parseEnvFile: the body of the forEach callback for one line
ParseLine(line, envv) ==
  LET trimmed == Trim(line)
  IN IF trimmed = <<>> \/ Head(trimmed) = "#" THEN envv
     ELSE LET parts == Split(trimmed, "=")
              key   == parts[1]
              value == Trim(Join(Tail(parts), "="))
          IN IF key # <<>> THEN (key :> value) @@ envv ELSE envv

RECURSIVE ParseLines(_, _)
ParseLines(lines, envv) ==
  IF lines = <<>> THEN envv
  ELSE ParseLines(Tail(lines), ParseLine(Head(lines), envv))

\* parseEnvFile(content)
ParseEnvFile(content) == ParseLines(Split(content, "\n"), [k \in {} |-> <<>>])

\* IsMissing that rejects an absent key only, not an empty value
IsMissing_AbsentOnly(envv, key) == ~Lookup(envv, <<key>>).defined

\* if (!envVars[key]) in the validation loop
IsMissing(envv, key) == Falsy(Lookup(envv, <<key>>))

\* the first required key the validation loop rejects, 0 when none
FirstMissing(envv) ==
  IF \E i \in 1..Len(Required) : IsMissing(envv, Required[i])
  THEN CHOOSE i \in 1..Len(Required) :
         /\ IsMissing(envv, Required[i])
         /\ \A j \in 1..(i - 1) : ~IsMissing(envv, Required[j])
  ELSE 0

\* BuildConfig with opt-in headless: `envVars.HEADLESS === 'true'`
BuildConfig_HeadlessOptIn(environment, envv, id) ==
  [id |-> id,
   environment |-> environment,
   baseURL |-> Lookup(envv, <<"BASE_URL">>).value,
   apiTimeout |-> ParseInt(OrDefault(Lookup(envv, <<"API_TIMEOUT">>), <<"30000">>)),
   retryCount |-> ParseInt(OrDefault(Lookup(envv, <<"RETRY_COUNT">>), <<"1">>)),
   headless |-> StrictEq(Lookup(envv, <<"HEADLESS">>), <<"true">>),
   slowMo |-> ParseInt(OrDefault(Lookup(envv, <<"SLOW_MO">>), <<"0">>)),
   testUserEmailPrefix |-> Lookup(envv, <<"TEST_USER_EMAIL_PREFIX">>).value,
   testUserPassword |-> Lookup(envv, <<"TEST_USER_PASSWORD">>).value,
   reportTitle |-> OrDefault(Lookup(envv, <<"REPORT_TITLE">>),
                             <<environment, " ", "Test", " ", "Results">>),
   slackChannel |-> OrDefault(Lookup(envv, <<"SLACK_CHANNEL">>), <<"#", "tests">>),
   enableScreenshots |-> StrictEq(Lookup(envv, <<"ENABLE_SCREENSHOTS">>), <<"true">>),
   enableVideos |-> StrictEq(Lookup(envv, <<"ENABLE_VIDEOS">>), <<"true">>),
   enableTraces |-> StrictEq(Lookup(envv, <<"ENABLE_TRACES">>), <<"true">>)]

\* the object literal returned by loadEnvironmentFile; id is the identity
\* of the new object
BuildConfig(environment, envv, id) ==
  [id |-> id,
   environment |-> environment,
   baseURL |-> Lookup(envv, <<"BASE_URL">>).value,
   apiTimeout |-> ParseInt(OrDefault(Lookup(envv, <<"API_TIMEOUT">>), <<"30000">>)),
   retryCount |-> ParseInt(OrDefault(Lookup(envv, <<"RETRY_COUNT">>), <<"1">>)),
   headless |-> ~StrictEq(Lookup(envv, <<"HEADLESS">>), <<"false">>),
   slowMo |-> ParseInt(OrDefault(Lookup(envv, <<"SLOW_MO">>), <<"0">>)),
   testUserEmailPrefix |-> Lookup(envv, <<"TEST_USER_EMAIL_PREFIX">>).value,
   testUserPassword |-> Lookup(envv, <<"TEST_USER_PASSWORD">>).value,
   reportTitle |-> OrDefault(Lookup(envv, <<"REPORT_TITLE">>),
                             <<environment, " ", "Test", " ", "Results">>),
   slackChannel |-> OrDefault(Lookup(envv, <<"SLACK_CHANNEL">>), <<"#", "tests">>),
   enableScreenshots |-> StrictEq(Lookup(envv, <<"ENABLE_SCREENSHOTS">>), <<"true">>),
   enableVideos |-> StrictEq(Lookup(envv, <<"ENABLE_VIDEOS">>), <<"true">>),
   enableTraces |-> StrictEq(Lookup(envv, <<"ENABLE_TRACES">>), <<"true">>)]

\* new Error(message)
ErrorOf(message) == [class |-> "Error", message |-> message]



\* path.join(__dirname, '../../..', 'environments', `${environment}.env`):
\* an absolute path; "<project>" stands for the directory of the project
EnvPath(environment) == <<"<project>", "/environments/", environment, ".env">>

\* `<U+274C> Environment file not found: ${envPath}`; the cross mark
\* U+274C that begins the messages of the manager is written as its escape
NotFoundError(environment) ==
  ErrorOf(<<"\\u274C", " ", "Environment file not found:", " ">>
          \o EnvPath(environment))

\* `<U+274C> Missing required env variable: ${key} in ${environment}.env`
MissingKeyError(key, environment) ==
  ErrorOf(<<"\\u274C", " ", "Missing required env variable:", " ", key, " ",
            "in", " ", environment, ".env">>)

\* the error fs.readFileSync raises for a path that does not exist
ReadError(environment) ==
  [class |-> "Error", code |-> "ENOENT",
   message |-> <<"ENOENT:", " ", "no such file or directory, open", " ", "'">>
               \o EnvPath(environment) \o <<"'">>]

\* LoadEnvironmentFile without the existsSync test: an absent file reads
\* as an empty one
LoadEnvironmentFile_NoExistsCheck(environment, file, atRead, id) ==
  LET envv == ParseEnvFile(atRead.content)
      i    == FirstMissing(envv)
  IN IF i # 0
     THEN [kind |-> "missing-required-key", key |-> Required[i],
           environment |-> environment,
           error |-> MissingKeyError(Required[i], environment)]
     ELSE [kind |-> "ok", config |-> BuildConfig(environment, envv, id)]

\* loadEnvironmentFile(environment): `file` is the state of the file when
\* fs.existsSync tests it, `atRead` its state when fs.readFileSync opens it
LoadEnvironmentFile(environment, file, atRead, id) ==
  IF ~file.exists
  THEN [kind |-> "missing-source", environment |-> environment,
        error |-> NotFoundError(environment)]
  ELSE IF ~atRead.exists
  THEN [kind |-> "read-error", environment |-> environment,
        error |-> ReadError(environment)]
  ELSE LET envv == ParseEnvFile(atRead.content)
           i    == FirstMissing(envv)
       IN IF i # 0
          THEN [kind |-> "missing-required-key", key |-> Required[i],
                environment |-> environment,
                error |-> MissingKeyError(Required[i], environment)]
          ELSE [kind |-> "ok", config |-> BuildConfig(environment, envv, id)]


\* the environments/<name>.env files that exist or are edited during a run
FileNames == {"qa", "staging"}

\* contents of environment files explored
SrcValid ==
  <<"BASE_URL", "=", "https://x.test", "\n",
    "#", " ", "comment", "\n",
    "\n",
    "API_TIMEOUT", "=", "5000", "\n",
    "TEST_USER_EMAIL_PREFIX", "=", "qa_user", "\n",
    "TEST_USER_PASSWORD", "=", "Secret1">>
SrcOther ==
  <<"BASE_URL", "=", " ", "https://y.test", "\n",
    "API_TIMEOUT", "=", "30000", "\n",
    "TEST_USER_EMAIL_PREFIX", "=", "stg_user", "\n",
    "TEST_USER_PASSWORD", "=", "a", "=", "b", "\n",
    "RETRY_COUNT", "=", "1", "\n",
    "RETRY_COUNT", "=", "9", "\n">>
SrcNoPassword ==
  <<"BASE_URL", "=", "https://x.test", "\n",
    "API_TIMEOUT", "=", "5000", "\n",
    "TEST_USER_EMAIL_PREFIX", "=", "qa_user", "\n">>
SrcEmptyUrl ==
  <<"BASE_URL", "=", " ", "\n",
    "API_TIMEOUT", "=", "5000", "\n",
    "TEST_USER_EMAIL_PREFIX", "=", "qa_user", "\n",
    "TEST_USER_PASSWORD", "=", "Secret1", "\n">>
EnvSources == {SrcValid, SrcOther, SrcNoPassword, SrcEmptyUrl}

\* values of the variables TEST_ENV and ENVIRONMENT explored
EnvVarValues == {Unset, "", "QA", "dev", "production"}

\* the file at environments/<name>.env
FileOf(name) == IF name \in DOMAIN files THEN files[name] ELSE Absent

\* a || b for environment variables: unset and '' are falsy
EnvOr(a, b) == IF a = Unset \/ a = "" THEN b ELSE a

\* InitializeCall without the fallback: the name is taken as it is
InitializeCall_NoFallback(testEnv, environment) ==
  LET env == ToLowerCase(EnvOr(testEnv, EnvOr(environment, "staging")))
  IN /\ currentEnvironment' = env
     /\ initialized' = TRUE
     /\ lastOp' = [op |-> "initialize", arg |-> env, kind |-> "ok",
                   testEnv |-> testEnv, envVar |-> environment,
                   warned |-> FALSE]

\* the body of initialize(): currentEnvironment from TEST_ENV, ENVIRONMENT
\* or 'staging'; warned is the console.warn of the fallback
InitializeCall(testEnv, environment) ==
  LET env == ToLowerCase(EnvOr(testEnv, EnvOr(environment, "staging")))
  IN /\ currentEnvironment' = IF env \notin Recognized THEN "staging" ELSE env
     /\ initialized' = TRUE
     /\ lastOp' = [op |-> "initialize", arg |-> env, kind |-> "ok",
                   testEnv |-> testEnv, envVar |-> environment,
                   warned |-> env \notin Recognized]

\* initialize()
Initialize(testEnv, environment) ==
  /\ InitializeCall(testEnv, environment)
  /\ UNCHANGED <<configCache, files, nextId, reads, retry, callerVars>>

\* CacheHas that never finds an entry: every call loads the file again
CacheHas_Never(cache, environment) == FALSE

\* this.configCache.has(environment)
CacheHas(cache, environment) == environment \in DOMAIN cache

\* GetConfigCall whose cache keeps the newest entry only
GetConfigCall_SingleEntry(op, arg) ==
  LET environment == IF arg = NoArg THEN currentEnvironment ELSE arg
  IN IF CacheHas(configCache, environment)
     THEN /\ lastOp' = [op |-> op, arg |-> arg, kind |-> "ok",
                        environment |-> environment,
                        config |-> configCache[environment]]
          /\ UNCHANGED <<configCache, files, nextId, reads>>
     ELSE LET file == FileOf(environment)
          IN \E atRead \in {file, Absent} :
               LET out == LoadEnvironmentFile(environment, file, atRead, nextId)
               IN /\ file.exists => reads[environment] < MaxReads
                  /\ files' = IF file.exists
                              THEN [files EXCEPT ![environment] = atRead]
                              ELSE files
                  /\ reads' = IF file.exists
                              THEN [reads EXCEPT ![environment] = @ + 1]
                              ELSE reads
                  /\ IF out.kind = "ok"
                     THEN /\ configCache' = (environment :> out.config)
                          /\ nextId' = nextId + 1
                     ELSE UNCHANGED <<configCache, nextId>>
                  /\ lastOp' = [op |-> op, arg |-> arg,
                                environment |-> environment] @@ out

\* the body of getConfig(env), called by operation op with argument arg;
\* between the existsSync and the readFileSync of one load another process
\* may remove the file (atRead = Absent), and then the read raises
GetConfigCall(op, arg) ==
  LET environment == IF arg = NoArg THEN currentEnvironment ELSE arg
  IN IF CacheHas(configCache, environment)
     THEN /\ lastOp' = [op |-> op, arg |-> arg, kind |-> "ok",
                        environment |-> environment,
                        config |-> configCache[environment]]
          /\ UNCHANGED <<configCache, files, nextId, reads>>
     ELSE LET file == FileOf(environment)
          IN \E atRead \in {file, Absent} :
               LET out == LoadEnvironmentFile(environment, file, atRead, nextId)
               IN /\ file.exists => reads[environment] < MaxReads
                  /\ files' = IF file.exists
                              THEN [files EXCEPT ![environment] = atRead]
                              ELSE files
                  /\ reads' = IF file.exists
                              THEN [reads EXCEPT ![environment] = @ + 1]
                              ELSE reads
                  /\ IF out.kind = "ok"
                     THEN /\ configCache' = (environment :> out.config) @@ configCache
                          /\ nextId' = nextId + 1
                     ELSE UNCHANGED <<configCache, nextId>>
                  /\ lastOp' = [op |-> op, arg |-> arg,
                                environment |-> environment] @@ out

\* getConfig(env?) / getEnvironmentConfig(env?)
GetConfig(arg) ==
  /\ initialized
  /\ GetConfigCall("getConfig", arg)
  /\ UNCHANGED <<currentEnvironment, initialized, retry, callerVars>>

\* validateEnvironment(environment?): getConfig, then logging only
ValidateEnvironment(arg) ==
  /\ initialized
  /\ GetConfigCall("validateEnvironment", arg)
  /\ UNCHANGED <<currentEnvironment, initialized, retry, callerVars>>

\* logEnvironmentInfo(): getConfig(), then logging only
LogEnvironmentInfo ==
  /\ initialized
  /\ GetConfigCall("logEnvironmentInfo", NoArg)
  /\ UNCHANGED <<currentEnvironment, initialized, retry, callerVars>>

\* `<U+274C> Invalid environment: ${environment}`
InvalidNameError(name) ==
  ErrorOf(<<"\\u274C", " ", "Invalid environment:", " ", name>>)

\* SetEnvironmentCall with the lenient policy of initialize: an
\* unrecognized name selects staging
SetEnvironmentCall_Lenient(name) ==
  /\ currentEnvironment' = IF name \notin Recognized THEN "staging" ELSE name
  /\ lastOp' = [op |-> "setEnvironment", arg |-> name, kind |-> "ok"]

\* SetEnvironmentCall that validates the name and forgets the assignment
SetEnvironmentCall_NoAssign(name) ==
  /\ lastOp' = IF name \notin Recognized
               THEN [op |-> "setEnvironment", arg |-> name,
                     kind |-> "invalid-name", error |-> InvalidNameError(name)]
               ELSE [op |-> "setEnvironment", arg |-> name, kind |-> "ok"]
  /\ UNCHANGED currentEnvironment

\* the body of setEnvironment(environment)
SetEnvironmentCall(name) ==
  IF name \notin Recognized
  THEN /\ lastOp' = [op |-> "setEnvironment", arg |-> name,
                     kind |-> "invalid-name", error |-> InvalidNameError(name)]
       /\ UNCHANGED currentEnvironment
  ELSE /\ currentEnvironment' = name
       /\ lastOp' = [op |-> "setEnvironment", arg |-> name, kind |-> "ok"]

\* setEnvironment(environment)
SetEnvironment(name) ==
  /\ initialized
  /\ SetEnvironmentCall(name)
  /\ UNCHANGED <<configCache, files, initialized, nextId, reads, retry, callerVars>>

\* getCurrentEnvironment()
GetCurrentEnvironment ==
  /\ initialized
  /\ lastOp' = [op |-> "getCurrentEnvironment", arg |-> NoArg, kind |-> "ok",
                name |-> currentEnvironment]
  /\ UNCHANGED <<currentEnvironment, configCache, files, initialized, nextId,
                 reads, retry, callerVars>>

\* the environment file of `name` is created or rewritten outside the program
WriteFile(name, content) ==
  /\ files[name] # FileWith(content)
  /\ files' = [files EXCEPT ![name] = FileWith(content)]
  /\ UNCHANGED <<currentEnvironment, configCache, initialized, nextId, reads,
                 lastOp, retry, callerVars>>

\* the environment file of `name` is deleted outside the program
RemoveFile(name) ==
  /\ files[name].exists
  /\ files' = [files EXCEPT ![name] = Absent]
  /\ UNCHANGED <<currentEnvironment, configCache, initialized, nextId, reads,
                 lastOp, retry, callerVars>>

(***************************************************************************)
(* Callers of the environment manager                                      *)
(***************************************************************************)
NoOp == [op |-> "none", arg |-> NoArg, kind |-> "ok"]

\* the tasks (tests, hooks) that call getConfig in one process
Tasks == {"task1", "task2"}

\* nothing called yet: no setEnvironment has succeeded, no task holds a
\* result of getConfig
WatchIdle ==
  watch = [lastSet |-> None, reinit |-> FALSE, got |-> [t \in Tasks |-> NoOp]]

\* task t calls getConfig(arg) and keeps what the call gave it
TaskGetConfig(t, arg) ==
  /\ initialized
  /\ GetConfigCall("getConfig", arg)
  /\ watch' = [watch EXCEPT !.got[t] = lastOp']
  /\ UNCHANGED <<currentEnvironment, initialized, retry, client, helperVars>>

\* a caller calls setEnvironment(name); lastSet is the name given to the
\* last call that succeeded
CallerSetEnvironment(name) ==
  /\ initialized
  /\ SetEnvironmentCall(name)
  /\ watch' = IF lastOp'.kind = "ok"
              THEN [watch EXCEPT !.lastSet = name, !.reinit = FALSE]
              ELSE watch
  /\ UNCHANGED <<configCache, files, initialized, nextId, reads, retry, client, helperVars>>

\* a caller calls initialize(); reinit tells that initialize() ran after
\* the last successful setEnvironment
CallerInitialize(testEnv, environment) ==
  /\ InitializeCall(testEnv, environment)
  /\ watch' = [watch EXCEPT !.reinit = TRUE]
  /\ UNCHANGED <<configCache, files, nextId, reads, retry, client, helperVars>>

(***************************************************************************)
(* UserClient                                                              *)
(***************************************************************************)
\* the tokens the server hands out, in the order it hands them out
TokenOrder == <<"tokA", "tokB">>
Tokens == {TokenOrder[i] : i \in 1..Len(TokenOrder)}
\* the login calls of one client that may be in flight together
LoginSlots == {1, 2}

\* a login call: pc is where the call stands (sent: awaiting post();
\* parsing: awaiting res.json(); returned; raised; resumed: the caller has
\* continued), before the token when it was called, ok and bodyToken the
\* response, overlapped whether the token was changed by something else
\* while the call was in flight, after the token the caller saw when it
\* continued
IdleLogin == [pc |-> "idle", before |-> "", ok |-> FALSE, bodyToken |-> Undefined,
              overlapped |-> FALSE, after |-> ""]

\* new UserClient(requestContext): token = ''; written tells that a test
\* has assigned the public field itself
ClientConstructed ==
  client = [token |-> "", written |-> FALSE,
            login |-> [k \in LoginSlots |-> IdleLogin]]

\* the frame of the steps of UserClient taken on their own
ClientFrame ==
  UNCHANGED <<retry, currentEnvironment, configCache, files, initialized,
              nextId, reads, lastOp, watch, helperVars>>

\* the login calls of client c when its token becomes `now`: the calls in
\* flight have seen the token change
Overlap(c, now) ==
  [j \in LoginSlots |->
     IF c.login[j].pc \in {"sent", "parsing"} /\ now # c.token
     THEN [c.login[j] EXCEPT !.overlapped = TRUE]
     ELSE c.login[j]]

\* login(credentials) up to `await this.requestContext.post(...)`
LoginSendCall(k) ==
  /\ client.login[k].pc \in {"idle", "resumed"}
  /\ client' = [client EXCEPT !.login[k] =
        [IdleLogin EXCEPT !.pc = "sent", !.before = client.token]]

\* LoginResponseCall without `if (res.ok())`: the body is parsed and its
\* token stored whatever the status
LoginResponseCall_NoOkCheck(k, ok, tok) ==
  /\ client.login[k].pc = "sent"
  /\ client' = [client EXCEPT !.login[k] =
        [@ EXCEPT !.pc = "parsing", !.ok = ok, !.bodyToken = tok]]

\* post() resolves with a response whose ok() is `ok` and whose body holds
\* the token `tok`: login goes on to `await res.json()` if ok, and returns
\* the response if not
LoginResponseCall(k, ok, tok) ==
  /\ client.login[k].pc = "sent"
  /\ client' = [client EXCEPT !.login[k] =
        [@ EXCEPT !.pc = IF ok THEN "parsing" ELSE "returned",
                  !.ok = ok, !.bodyToken = tok]]

\* a login call made on the client alone
LoginSend(k) ==
  /\ LoginSendCall(k)
  /\ ClientFrame

\* the response to a login call made on the client alone
LoginResponse(k, ok, tok) ==
  /\ LoginResponseCall(k, ok, tok)
  /\ ClientFrame

\* post() rejects: login raises and the token stays
LoginPostRaises(k) ==
  /\ client.login[k].pc = "sent"
  /\ client' = [client EXCEPT !.login[k].pc = "raised"]
  /\ ClientFrame

\* res.json() resolves: this.token = body.token, and login returns
LoginBody(k) ==
  /\ client.login[k].pc = "parsing"
  /\ LET tok == client.login[k].bodyToken
     IN client' = [client EXCEPT
          !.token = tok,
          !.login = [j \in LoginSlots |->
                       IF j = k THEN [client.login[k] EXCEPT !.pc = "returned"]
                       ELSE Overlap(client, tok)[j]]]
  /\ ClientFrame

\* res.json() rejects: login raises after an OK response, the token stays
LoginBodyRaises(k) ==
  /\ client.login[k].pc = "parsing"
  /\ client' = [client EXCEPT !.login[k].pc = "raised"]
  /\ ClientFrame

\* the caller of login continues after its await and reads the token
LoginResume(k) ==
  /\ client.login[k].pc \in {"returned", "raised"}
  /\ client' = [client EXCEPT !.login[k] =
        [IdleLogin EXCEPT !.pc = "resumed", !.after = client.token]]
  /\ ClientFrame

\* a test assigns the public field: userClient.token = tok
AssignToken(tok) ==
  /\ client' = [client EXCEPT !.token = tok, !.written = TRUE,
                              !.login = Overlap(client, tok)]
  /\ ClientFrame

(***************************************************************************)
(* The parser applied to sources put together from lines                   *)
(***************************************************************************)
\* the four required keys, one per line
RequiredBlock ==
  <<"BASE_URL", "=", "https://x.test", "\n",
    "API_TIMEOUT", "=", "5000", "\n",
    "TEST_USER_EMAIL_PREFIX", "=", "qa_user", "\n",
    "TEST_USER_PASSWORD", "=", "Secret1", "\n">>

\* lines of environment files explored: pairs, a repeated key, comments,
\* blank lines, spaces around key and value, '=' inside the value, an
\* empty key, an empty value of a required key, a line without '='
LineChoices ==
  {<<"RETRY_COUNT", "=", "1">>,
   <<"RETRY_COUNT", "=", "9">>,
   <<"#", " ", "comment">>,
   <<>>,
   <<" ">>,
   <<" ", "#", "RETRY_COUNT", "=", "1">>,
   <<" ", "TOKEN", " ", "=", " ", "a", "=", "b", " ">>,
   <<"=", "v">>,
   <<"BASE_URL", "=">>,
   <<"NOVALUE">>}

\* the example source of the format description
SrcExample ==
  <<"BASE_URL", "=", "https://x.test", "\n",
    "#", " ", "comment", "\n",
    "\n",
    "API_TIMEOUT", "=", "5000">>

\* sources of up to MaxLines lines, alone or after the required keys
ParseSources ==
  {SrcExample, SrcValid} \cup
  {pre \o Join(ls, "\n") :
     pre \in {<<>>, RequiredBlock},
     ls \in UNION {[1..n -> LineChoices] : n \in 0..MaxLines}}

\* no source parsed yet
ParseIdle ==
  parse = [pc |-> "idle", content |-> <<>>, environment |-> None,
           envVars |-> [k \in {} |-> <<>>], out |-> NoOp]

\* loadEnvironmentFile(environment) from `const envVars = parseEnvFile(
\* envContent)` on, for the content under test: envVars is what the parser
\* returned, out what loadEnvironmentFile made of it
ParseSource(environment) ==
  /\ parse.pc = "idle"
  /\ parse' = [pc |-> "done", content |-> parse.content,
               environment |-> environment,
               envVars |-> ParseEnvFile(parse.content),
               out |-> LoadEnvironmentFile(environment, FileWith(parse.content),
                                          FileWith(parse.content), 0)]
  /\ UNCHANGED <<retry, currentEnvironment, configCache, files, initialized,
                 nextId, reads, lastOp, watch, client, session, poll>>

(***************************************************************************)
(* A test that uses the userClient fixture, and the contact-list server   *)
(* as the API tests describe it                                            *)
(***************************************************************************)
\* the email address a test registers and logs in with, in two spellings
Emails == {"alice", "Alice"}
\* the server compares email addresses without regard to case
LowerEmail(e) == IF e = "Alice" THEN "alice" ELSE e

\* the requests of the test body that may be in flight together, besides
\* the logins; request 0 is the delete of the fixture's cleanup
CallSlots == {1}

NoRequest == [op |-> "none", auth |-> "", status |-> 0, token |-> Undefined]

\* a request: auth is the token put into its Authorization header when the
\* method was called, email and valid describe its payload
IdleCall == [pc |-> "idle", op |-> "none", auth |-> "", email |-> "", valid |-> TRUE]


\* nothing registered, no token issued, nothing in flight, the test body
\* about to run; last is the request answered last with its response,
\* awaited tells that nothing was in flight when the body finished
SessionIdle ==
  session = [users |-> {}, valid |-> [t \in Tokens |-> None], issued |-> {},
             pc |-> "body", awaited |-> TRUE, registered |-> {},
             last |-> NoRequest,
             calls |-> [c \in {0} \cup CallSlots |-> IdleCall],
             logins |-> [k \in LoginSlots |-> [email |-> "", good |-> FALSE]]]

\* the server accepts `Bearer ${tok}`
Authorized(s, tok) == tok \in Tokens /\ s.valid[tok] # None

\* the server has a token left to hand out
CanIssue(s) == Cardinality(s.issued) < Len(TokenOrder)
\* the token the server hands out next
FreshToken(s) == TokenOrder[Cardinality(s.issued) + 1]

\* POST /users: 400 for a payload that is not valid and for an email
\* already registered, else 201, a new user and a token for it
ServerRegister(s, email, valid) ==
  IF ~valid \/ LowerEmail(email) \in s.users
  THEN [s EXCEPT !.last = [op |-> "register", auth |-> "", status |-> 400,
                           token |-> Undefined]]
  ELSE LET tok == FreshToken(s)
       IN [s EXCEPT !.users = @ \cup {LowerEmail(email)},
                    !.valid[tok] = LowerEmail(email),
                    !.issued = @ \cup {tok},
                    !.last = [op |-> "register", auth |-> "", status |-> 201,
                              token |-> tok]]

\* POST /users/login: 200 with a new token for a registered user and the
\* right password, 401 otherwise
ServerLogin(s, email, good) ==
  IF LowerEmail(email) \in s.users /\ good
  THEN LET tok == FreshToken(s)
       IN [s EXCEPT !.valid[tok] = LowerEmail(email),
                    !.issued = @ \cup {tok},
                    !.last = [op |-> "login", auth |-> "", status |-> 200,
                              token |-> tok]]
  ELSE [s EXCEPT !.last = [op |-> "login", auth |-> "", status |-> 401,
                           token |-> Undefined]]

\* GET /users/me: 200 with a valid token, else 401
ServerProfile(s, tok) ==
  [s EXCEPT !.last = [op |-> "profile", auth |-> tok,
                      status |-> IF Authorized(s, tok) THEN 200 ELSE 401,
                      token |-> Undefined]]

\* PATCH /users/me: 401 without a valid token, 400 for a payload that is
\* not valid, else 200
ServerUpdateProfile(s, tok, valid) ==
  [s EXCEPT !.last = [op |-> "updateProfile", auth |-> tok,
                      status |-> IF ~Authorized(s, tok) THEN 401
                                 ELSE IF ~valid THEN 400 ELSE 200,
                      token |-> Undefined]]

\* POST /users/logout: every token of the user of the request's token
\* stops being valid
ServerLogout(s, tok) ==
  IF Authorized(s, tok)
  THEN [s EXCEPT !.valid = [t \in Tokens |-> IF s.valid[t] = s.valid[tok]
                                              THEN None ELSE s.valid[t]],
                 !.last = [op |-> "logout", auth |-> tok, status |-> 200,
                           token |-> Undefined]]
  ELSE [s EXCEPT !.last = [op |-> "logout", auth |-> tok, status |-> 401,
                           token |-> Undefined]]

\* DELETE /users/me: the user of the token is removed with all its tokens
ServerDelete(s, tok) ==
  IF Authorized(s, tok)
  THEN LET u == s.valid[tok]
       IN [s EXCEPT !.users = @ \ {u},
                    !.valid = [t \in Tokens |-> IF s.valid[t] = u THEN None ELSE s.valid[t]],
                    !.last = [op |-> "delete", auth |-> tok, status |-> 200,
                              token |-> Undefined]]
  ELSE [s EXCEPT !.last = [op |-> "delete", auth |-> tok, status |-> 401,
                           token |-> Undefined]]

\* the server handles request r
Serve(s, r) ==
  CASE r.op = "register"      -> ServerRegister(s, r.email, r.valid)
    [] r.op = "profile"       -> ServerProfile(s, r.auth)
    [] r.op = "updateProfile" -> ServerUpdateProfile(s, r.auth, r.valid)
    [] r.op = "logout"        -> ServerLogout(s, r.auth)
    [] r.op = "delete"        -> ServerDelete(s, r.auth)

\* the answer to request r hands out a token
Issues(s, r) ==
  r.op = "register" /\ r.valid /\ LowerEmail(r.email) \notin s.users

\* the frame of the steps of a test
SessionFrame ==
  UNCHANGED <<retry, currentEnvironment, configCache, files, initialized,
              nextId, reads, lastOp, watch, parse, poll>>

\* a method of the client other than login is called: the request leaves
\* with the headers built at the call, and the method awaits the response
SendCall(c, op, email, valid) ==
  /\ session.calls[c].pc # "sent"
  /\ session' = [session EXCEPT !.calls[c] =
        [pc |-> "sent", op |-> op,
         auth |-> IF op = "register" THEN "" ELSE client.token,
         email |-> email, valid |-> valid]]
  /\ UNCHANGED client
  /\ SessionFrame

\* userClient.register(user) in the test body: no Authorization header
ClientRegister(c, email, valid) ==
  /\ session.pc = "body"
  /\ SendCall(c, "register", email, valid)

\* userClient.login(credentials) in the test body
ClientLogin(k, email, good) ==
  /\ session.pc = "body"
  /\ LoginSendCall(k)
  /\ session' = [session EXCEPT !.logins[k] = [email |-> email, good |-> good]]
  /\ SessionFrame

\* userClient.profile() in the test body
ClientProfile(c) ==
  /\ session.pc = "body"
  /\ SendCall(c, "profile", "", TRUE)

\* userClient.updateProfile(updateData) in the test body
ClientUpdateProfile(c, valid) ==
  /\ session.pc = "body"
  /\ SendCall(c, "updateProfile", "", valid)

\* userClient.logout() in the test body
ClientLogout(c) ==
  /\ session.pc = "body"
  /\ SendCall(c, "logout", "", TRUE)

\* userClient.delete() in the test body
ClientDelete(c) ==
  /\ session.pc = "body"
  /\ SendCall(c, "delete", "", TRUE)

\* the test body assigns the token: a token it has seen in a response, or
\* a value that is no token
TestAssignsToken(tok) ==
  /\ session.pc = "body"
  /\ tok \in session.issued \cup {"invalid-token"}
  /\ AssignToken(tok)

\* ServerAnswers whose client forgets its token once the server has
\* accepted a logout
ServerAnswers_ClearsToken(c) ==
  /\ session.calls[c].pc = "sent"
  /\ Issues(session, session.calls[c]) => CanIssue(session)
  /\ LET r == session.calls[c]
         s == Serve(session, r)
     IN /\ session' = [s EXCEPT
             !.calls[c] = [IdleCall EXCEPT !.pc = "returned"],
             !.registered = IF r.op = "register" /\ s.last.status = 201
                            THEN @ \cup {LowerEmail(r.email)} ELSE @]
        /\ client' = IF r.op = "logout" /\ s.last.status = 200
                     THEN [client EXCEPT !.token = ""] ELSE client
  /\ SessionFrame

\* the server answers request c and the method that sent it returns the
\* response; no method but login looks into it
ServerAnswers(c) ==
  /\ session.calls[c].pc = "sent"
  /\ Issues(session, session.calls[c]) => CanIssue(session)
  /\ LET r == session.calls[c]
         s == Serve(session, r)
     IN session' = [s EXCEPT
          !.calls[c] = [IdleCall EXCEPT !.pc = "returned"],
          !.registered = IF r.op = "register" /\ s.last.status = 201
                         THEN @ \cup {LowerEmail(r.email)} ELSE @]
  /\ UNCHANGED client
  /\ SessionFrame

\* request c fails without an answer: the method that sent it raises
RequestRaises(c) ==
  /\ session.calls[c].pc = "sent"
  /\ session' = [session EXCEPT !.calls[c] = [IdleCall EXCEPT !.pc = "raised"]]
  /\ UNCHANGED client
  /\ SessionFrame

\* the server answers the login call k
ServerAnswersLogin(k) ==
  /\ client.login[k].pc = "sent"
  /\ (LowerEmail(session.logins[k].email) \in session.users
      /\ session.logins[k].good) => CanIssue(session)
  /\ LET s == ServerLogin(session, session.logins[k].email, session.logins[k].good)
     IN /\ LoginResponseCall(k, s.last.status = 200, s.last.token)
        /\ session' = [s EXCEPT !.logins[k] = [email |-> "", good |-> FALSE]]
  /\ SessionFrame

\* `await use(userClient)` returns: the test body has finished, with or
\* without calls it did not await
FinishTestBody ==
  /\ session.pc = "body"
  /\ session' = [session EXCEPT
       !.pc = "cleanup",
       !.awaited = /\ \A c \in CallSlots : session.calls[c].pc # "sent"
                   /\ \A k \in LoginSlots :
                        client.login[k].pc \notin {"sent", "parsing"}]
  /\ UNCHANGED client
  /\ SessionFrame

\* the fixture's cleanup calls userClient.delete() and awaits it
FixtureCleanup ==
  /\ session.pc = "cleanup"
  /\ session' = [session EXCEPT
       !.pc = "cleaning",
       !.calls[0] = [pc |-> "sent", op |-> "delete",
                               auth |-> client.token, email |-> "",
                               valid |-> TRUE]]
  /\ UNCHANGED client
  /\ SessionFrame

\* the delete of the cleanup has returned, or raised into the empty catch
FixtureDone ==
  /\ session.pc = "cleaning"
  /\ session.calls[0].pc \in {"returned", "raised"}
  /\ session' = [session EXCEPT !.pc = "done"]
  /\ UNCHANGED client
  /\ SessionFrame

(***************************************************************************)
(* waitForApiResponse                                                      *)
(***************************************************************************)
\* timeout arguments explored (milliseconds)
Timeouts == {0 - 1, 0, 500, 1200}
\* time that a request or an evaluation of the condition takes
Durations == {0, 300, 600}
\* by how much the 500 ms timer is late
TimerLate == {0, 100}
\* setTimeout(resolve, 500)
PollInterval == 500

NotThrown == [kind |-> "none"]
\* new Error(`API response condition not met within ${timeout}ms`)
TimeoutError(timeout) == [kind |-> "timeout", timeout |-> timeout]
\* an error raised by the request or by the condition
Propagated(e) == [kind |-> "error", error |-> e]

\* no call made; now is Date.now(), counted from the time of the call;
\* polls holds, for each request sent, the time it was sent at and what
\* became of it
PollIdle ==
  poll = [pc |-> "idle", timeout |-> 0, startTime |-> 0, now |-> 0,
          polls |-> <<>>, inflight |-> 0, result |-> 0, thrown |-> NotThrown]

\* LoopCheck with `<=` for `<`
LoopCheck_Inclusive(p) ==
  IF p.now - p.startTime <= p.timeout
  THEN [p EXCEPT !.pc = "polling", !.inflight = @ + 1,
                 !.polls = Append(@, [sentAt |-> p.now, outcome |-> "pending"])]
  ELSE [p EXCEPT !.pc = "raised", !.thrown = TimeoutError(p.timeout)]

\* while (Date.now() - startTime < timeout): send the next request, or
\* leave the loop and throw the timeout error
LoopCheck(p) ==
  IF p.now - p.startTime < p.timeout
  THEN [p EXCEPT !.pc = "polling", !.inflight = @ + 1,
                 !.polls = Append(@, [sentAt |-> p.now, outcome |-> "pending"])]
  ELSE [p EXCEPT !.pc = "raised", !.thrown = TimeoutError(p.timeout)]

PollFrame ==
  UNCHANGED <<retry, currentEnvironment, configCache, files, initialized,
              nextId, reads, lastOp, watch, client, parse, session>>

\* waitForApiResponse(request, endpoint, condition, timeout) is called
StartWaitForApiResponse(timeout) ==
  /\ poll.pc = "idle"
  /\ poll' = LoopCheck([poll EXCEPT !.timeout = timeout, !.startTime = poll.now])
  /\ PollFrame

\* `await apiGet(request, endpoint)` gives a response after dt ms; the
\* condition is called with it
ApiGetReturns(dt) ==
  /\ poll.pc = "polling"
  /\ poll' = [poll EXCEPT !.pc = "checking", !.now = @ + dt, !.inflight = @ - 1]
  /\ PollFrame

\* `await apiGet(request, endpoint)` rejects with e after dt ms
ApiGetRaises(e, dt) ==
  /\ poll.pc = "polling"
  /\ poll' = [poll EXCEPT !.pc = "raised", !.now = @ + dt, !.inflight = @ - 1,
                          !.polls[Len(poll.polls)].outcome = "failed",
                          !.thrown = Propagated(e)]
  /\ PollFrame

\* ConditionReturns that returns the response whatever the condition says
ConditionReturns_Unchecked(b, dt) ==
  /\ poll.pc = "checking"
  /\ poll' = [poll EXCEPT !.pc = "returned", !.now = @ + dt,
                          !.polls[Len(poll.polls)].outcome =
                             IF b THEN "true" ELSE "false",
                          !.result = Len(poll.polls)]
  /\ PollFrame

\* `await condition(response)` gives b after dt ms: the response is
\* returned, or the 500 ms timer is set
ConditionReturns(b, dt) ==
  /\ poll.pc = "checking"
  /\ poll' = IF b
             THEN [poll EXCEPT !.pc = "returned", !.now = @ + dt,
                               !.polls[Len(poll.polls)].outcome = "true",
                               !.result = Len(poll.polls)]
             ELSE [poll EXCEPT !.pc = "sleeping", !.now = @ + dt,
                               !.polls[Len(poll.polls)].outcome = "false"]
  /\ PollFrame

\* `await condition(response)` rejects with e
ConditionRaises(e) ==
  /\ poll.pc = "checking"
  /\ poll' = [poll EXCEPT !.pc = "raised",
                          !.polls[Len(poll.polls)].outcome = "failed",
                          !.thrown = Propagated(e)]
  /\ PollFrame

\* the 500 ms timer fires, `late` ms late, and the loop condition is
\* evaluated again
PollTimerElapse(late) ==
  /\ poll.pc = "sleeping"
  /\ poll' = LoopCheck([poll EXCEPT !.now = @ + PollInterval + late])
  /\ PollFrame

(***************************************************************************)
(* Specifications                                                          *)
(***************************************************************************)
CallersIdle == WatchIdle /\ ClientConstructed /\ ParseIdle /\ SessionIdle /\ PollIdle

\* new EnvironmentManager(): the field initialisers
EnvConstructed ==
  /\ currentEnvironment = "staging"
  /\ configCache = [n \in {} |-> NoOp]
  /\ initialized = FALSE
  /\ nextId = 0
  /\ reads = [n \in AllNames |-> 0]
  /\ lastOp = NoOp

RetryIdle == retry = [r \in Runs |-> IdleRun]

\* retry calls only; the environment manager is left as constructed
RetryInit ==
  /\ RetryIdle
  /\ EnvConstructed
  /\ CallersIdle
  /\ files = [n \in FileNames |-> Absent]

RetryNext ==
  \/ \E r \in Runs, m \in AttemptArgs, d \in BaseDelays : StartRetry(r, m, d)
  \/ \E r \in Runs, v \in Values : FnReturn(r, v)
  \/ \E r \in Runs, e \in Errors : FnRaise(r, e)
  \/ \E r \in Runs : TimerElapse(r)

RetrySpec == RetryInit /\ [][RetryNext]_vars

\* the promise of an invocation of fn settles, one way or the other
FnSettles(r) ==
  \/ \E v \in Values : FnReturn(r, v)
  \/ \E e \in Errors : FnRaise(r, e)

\* retry calls in which every invocation of fn completes and every timer
\* fires
RetryFairness ==
  \A r \in Runs : WF_vars(FnSettles(r)) /\ WF_vars(TimerElapse(r))

RetryLiveSpec == RetryInit /\ [][RetryNext]_vars /\ RetryFairness

\* the environment manager only, over any initial set of environment files
EnvInit ==
  /\ RetryIdle
  /\ EnvConstructed
  /\ CallersIdle
  /\ files \in [FileNames -> ({Absent} \cup {FileWith(c) : c \in EnvSources})]

EnvNext ==
  \/ \E t \in EnvVarValues, e \in EnvVarValues : Initialize(t, e)
  \/ \E a \in ({NoArg} \cup AllNames) : GetConfig(a)
  \/ \E a \in ({NoArg} \cup AllNames) : ValidateEnvironment(a)
  \/ LogEnvironmentInfo
  \/ \E n \in AllNames : SetEnvironment(n)
  \/ GetCurrentEnvironment
  \/ \E n \in FileNames, c \in EnvSources : WriteFile(n, c)
  \/ \E n \in FileNames : RemoveFile(n)

EnvSpec == EnvInit /\ [][EnvNext]_vars

\* process start: the module is imported once, which constructs the
\* manager and calls initialize(); nobody calls setEnvironment
ImportModule(testEnv, environment) ==
  /\ ~initialized
  /\ Initialize(testEnv, environment)

StartNext ==
  \/ \E t \in EnvVarValues, e \in EnvVarValues : ImportModule(t, e)
  \/ GetCurrentEnvironment
  \/ \E a \in ({NoArg} \cup AllNames) : GetConfig(a)

StartSpec == EnvInit /\ [][StartNext]_vars

\* resolution of one environment file: qa.env holds any combination of
\* the required keys, each set, empty or absent
KeyChoices == [1..Len(Required) -> {"set", "empty", "absent"}]

KeyLine(i, st) ==
  CASE st = "set" -> <<Required[i], "=", <<"https://x.test", "5000", "qa_user", "Secret1">>[i], "\n">>
    [] st = "empty" -> <<Required[i], "=", " ", "\n">>
    [] st = "absent" -> <<>>

\* the file that choice f describes
SourceOf(f) == KeyLine(1, f[1]) \o KeyLine(2, f[2]) \o KeyLine(3, f[3]) \o KeyLine(4, f[4])

LoadInit ==
  /\ RetryIdle
  /\ EnvConstructed
  /\ CallersIdle
  /\ \E f \in KeyChoices :
       files = [n \in FileNames |->
                  IF n = "qa" THEN FileWith(SourceOf(f)) ELSE FileWith(SrcValid)]

LoadNext ==
  \/ \E t \in {Unset, "QA"} : Initialize(t, Unset)
  \/ \E a \in {NoArg, "qa", "staging"} : GetConfig(a)

LoadSpec == LoadInit /\ [][LoadNext]_vars

\* callers that switch the environment and tasks that resolve configs
CallerInit ==
  /\ RetryIdle
  /\ EnvConstructed
  /\ CallersIdle
  /\ files \in [FileNames -> {Absent, FileWith(SrcValid)}]

CallerNext ==
  \/ \E t \in {Unset, "production"} : CallerInitialize(t, Unset)
  \/ \E n \in {"qa", "staging", "dev"} : CallerSetEnvironment(n)
  \/ \E t \in Tasks, a \in {NoArg, "qa"} : TaskGetConfig(t, a)
  \/ \E n \in {"qa"}, c \in {SrcValid, SrcOther, SrcNoPassword} : WriteFile(n, c)
  \/ \E n \in {"qa"} : RemoveFile(n)

CallerSpec == CallerInit /\ [][CallerNext]_vars

\* one UserClient and the login calls made on it
ClientInit ==
  /\ RetryIdle
  /\ EnvConstructed
  /\ CallersIdle
  /\ files = [n \in FileNames |-> Absent]

ClientNext ==
  \/ \E k \in LoginSlots : LoginSend(k)
  \/ \E k \in LoginSlots, ok \in BOOLEAN, tok \in (Tokens \cup {Undefined}) :
       LoginResponse(k, ok, tok)
  \/ \E k \in LoginSlots : LoginPostRaises(k)
  \/ \E k \in LoginSlots : LoginBody(k)
  \/ \E k \in LoginSlots : LoginBodyRaises(k)
  \/ \E k \in LoginSlots : LoginResume(k)
  \/ \E tok \in Tokens \cup {"invalid-token"} : AssignToken(tok)

ClientSpec == ClientInit /\ [][ClientNext]_vars


\* the parser and the resolution applied to one source
ParseInit ==
  /\ RetryIdle
  /\ EnvConstructed
  /\ WatchIdle /\ ClientConstructed /\ SessionIdle /\ PollIdle
  /\ files = [n \in FileNames |-> Absent]
  /\ \E c \in ParseSources :
       parse = [pc |-> "idle", content |-> c, environment |-> None,
                envVars |-> [k \in {} |-> <<>>], out |-> NoOp]

ParseNext == \E n \in {"qa", "staging"} : ParseSource(n)

ParseSpec == ParseInit /\ [][ParseNext]_vars

\* an optional key of a source: left out, or present with a value
NoOpt == [defined |-> FALSE, value |-> <<>>]
Opt(v) == [defined |-> TRUE, value |-> v]

\* the values of the optional keys explored
OptChoices ==
  [RETRY_COUNT : {NoOpt, Opt(<<"9">>), Opt(<<>>)},
   HEADLESS : {NoOpt, Opt(<<"false">>), Opt(<<"true">>), Opt(<<"FALSE">>), Opt(<<>>)},
   SLOW_MO : {NoOpt, Opt(<<"9">>)},
   REPORT_TITLE : {NoOpt, Opt(<<"Nightly">>), Opt(<<>>)},
   SLACK_CHANNEL : {NoOpt, Opt(<<"#", "qa">>)},
   ENABLE_SCREENSHOTS : {NoOpt, Opt(<<"true">>), Opt(<<"false">>), Opt(<<"TRUE">>)},
   ENABLE_VIDEOS : {NoOpt, Opt(<<"true">>), Opt(<<"1">>)},
   ENABLE_TRACES : {NoOpt, Opt(<<"true">>), Opt(<<>>)}]

OptLine(key, c) == IF c.defined THEN <<key, "=">> \o c.value \o <<"\n">> ELSE <<>>

\* the source with the four required keys and the optional keys of choice o
OptSource(o) ==
  RequiredBlock
    \o OptLine("RETRY_COUNT", o.RETRY_COUNT)
    \o OptLine("HEADLESS", o.HEADLESS)
    \o OptLine("SLOW_MO", o.SLOW_MO)
    \o OptLine("REPORT_TITLE", o.REPORT_TITLE)
    \o OptLine("SLACK_CHANNEL", o.SLACK_CHANNEL)
    \o OptLine("ENABLE_SCREENSHOTS", o.ENABLE_SCREENSHOTS)
    \o OptLine("ENABLE_VIDEOS", o.ENABLE_VIDEOS)
    \o OptLine("ENABLE_TRACES", o.ENABLE_TRACES)

\* resolution of environment files that hold the required keys and any
\* choice of optional keys
DefaultsInit ==
  /\ RetryIdle
  /\ EnvConstructed
  /\ CallersIdle
  /\ \E o \in OptChoices : files = [n \in FileNames |-> FileWith(OptSource(o))]

DefaultsNext ==
  \/ \E t \in {Unset, "QA"} : Initialize(t, Unset)
  \/ \E a \in {NoArg, "qa", "staging"} : GetConfig(a)

DefaultsSpec == DefaultsInit /\ [][DefaultsNext]_vars

\* one test that uses the userClient fixture: its body calls the client
\* in any order, awaiting the calls or not (with one login in flight at a
\* time), then the fixture cleans up
SessionInit ==
  /\ RetryIdle
  /\ EnvConstructed
  /\ CallersIdle
  /\ files = [n \in FileNames |-> Absent]

SessionNext ==
  \/ \E c \in CallSlots, e \in Emails, valid \in BOOLEAN : ClientRegister(c, e, valid)
  \/ \E k \in {1}, e \in Emails, good \in BOOLEAN : ClientLogin(k, e, good)
  \/ \E c \in CallSlots : ClientProfile(c)
  \/ \E c \in CallSlots, valid \in BOOLEAN : ClientUpdateProfile(c, valid)
  \/ \E c \in CallSlots : ClientLogout(c)
  \/ \E c \in CallSlots : ClientDelete(c)
  \/ \E tok \in Tokens \cup {"invalid-token"} : TestAssignsToken(tok)
  \/ \E c \in {0} \cup CallSlots : ServerAnswers(c)
  \/ \E c \in {0} \cup CallSlots : RequestRaises(c)
  \/ \E k \in LoginSlots : ServerAnswersLogin(k)
  \/ \E k \in LoginSlots : LoginPostRaises(k)
  \/ \E k \in LoginSlots : LoginBody(k)
  \/ \E k \in LoginSlots : LoginBodyRaises(k)
  \/ \E k \in LoginSlots : LoginResume(k)
  \/ FinishTestBody
  \/ FixtureCleanup
  \/ FixtureDone

SessionSpec == SessionInit /\ [][SessionNext]_vars


\* one call of waitForApiResponse
WaitInit ==
  /\ RetryIdle
  /\ EnvConstructed
  /\ CallersIdle
  /\ files = [n \in FileNames |-> Absent]

WaitNext ==
  \/ \E t \in Timeouts : StartWaitForApiResponse(t)
  \/ \E dt \in Durations : ApiGetReturns(dt)
  \/ \E e \in Errors, dt \in Durations : ApiGetRaises(e, dt)
  \/ \E b \in BOOLEAN, dt \in Durations : ConditionReturns(b, dt)
  \/ \E e \in Errors : ConditionRaises(e)
  \/ \E late \in TimerLate : PollTimerElapse(late)

WaitSpec == WaitInit /\ [][WaitNext]_vars


(***************************************************************************)
(* Properties of TestUtils.retry                                           *)
(***************************************************************************)
Started(r) == retry[r].pc # "idle" /\ retry[r].maxAttempts >= 1
Last(seq) == seq[Len(seq)]

\* C1: with maxAttempts >= 1, fn is invoked at most maxAttempts times and
\* the attempts of one call never overlap: while attempt number i+1 is in
\* flight, the i earlier attempts have all failed, each was followed by a
\* backoff wait, and no wait is still pending.
C1_AtMostMaxSequential ==
  \A r \in Runs : Started(r) =>
    /\ retry[r].calls <= retry[r].maxAttempts
    /\ retry[r].inflight + retry[r].timers <= 1
    /\ retry[r].pc = "calling" =>
         /\ retry[r].inflight = 1
         /\ Len(retry[r].errs) = retry[r].calls - 1
         /\ Len(retry[r].waits) = retry[r].calls - 1
         /\ retry[r].timers = 0

\* the third attempt of a call is in flight
C1_Witness ==
  \E r \in Runs : /\ retry[r].pc = "calling"
                  /\ retry[r].maxAttempts = 3
                  /\ retry[r].calls = 3

\* C2: once an invocation of fn has succeeded, the call has returned that
\* invocation's value and nothing of the call changes any more: fn is not
\* invoked again, whatever number of attempts remain.
C2_SuccessReturnsAtOnce ==
  [][\A r \in Runs :
       /\ (Started(r)' /\ retry'[r].fnValue # None) =>
            /\ retry'[r].pc = "returned"
            /\ retry'[r].result = retry'[r].fnValue
            /\ retry'[r].inflight = 0
       /\ (Started(r) /\ retry[r].fnValue # None) => retry'[r] = retry[r]]_vars

\* a call returned at its second attempt with a third attempt remaining
C2_Witness ==
  \E r \in Runs : /\ retry[r].pc = "returned"
                  /\ retry[r].maxAttempts = 3
                  /\ retry[r].calls = 2
                  /\ retry[r].result = "v2"

\* C3: when fn has failed maxAttempts times (maxAttempts >= 1) the call has
\* raised the error of the last invocation itself.
C3_RaisesLastError ==
  \A r \in Runs :
    (Started(r) /\ Len(retry[r].errs) = retry[r].maxAttempts) =>
      /\ retry[r].pc = "raised"
      /\ retry[r].thrown = Last(retry[r].errs)

\* a call is exhausted after fn raised e1 and then e2
C3_Witness ==
  \E r \in Runs : /\ retry[r].pc = "raised"
                  /\ retry[r].maxAttempts = 2
                  /\ retry[r].errs = <<"e1", "e2">>

\* C4: with maxAttempts >= 1 a completed call either returned a value that
\* an invocation of fn produced and raised nothing, or raised exactly one
\* error, the one of the last attempt, and returned nothing; a call whose
\* attempts are exhausted has raised.
C4_ValueOrOneError ==
  \A r \in Runs : Started(r) =>
    /\ RetryDone(r) =>
         \/ /\ retry[r].pc = "returned"
            /\ retry[r].result \in Values
            /\ retry[r].result = retry[r].fnValue
            /\ retry[r].thrown = None
            /\ retry[r].raises = 0
         \/ /\ retry[r].pc = "raised"
            /\ retry[r].raises = 1
            /\ retry[r].errs # <<>>
            /\ retry[r].thrown = Last(retry[r].errs)
            /\ retry[r].result = None
            /\ retry[r].fnValue = None
    /\ Len(retry[r].errs) = retry[r].maxAttempts => retry[r].pc = "raised"

\* both outcomes are reached: one call returned, the other raised
C4_Witness ==
  \E r, q \in Runs : /\ Started(r) /\ Started(q)
                     /\ retry[r].pc = "returned"
                     /\ retry[q].pc = "raised"

\* C5: the wait after failed attempt i is baseDelay * 2^(i-1); a call that
\* returned after k failures invoked fn k+1 times and waited
\* baseDelay * (2^k - 1) in total (300 for k = 2 and baseDelay = 100).
C5_BackoffDoubles ==
  \A r \in Runs : Started(r) =>
    /\ \A i \in 1..Len(retry[r].waits) :
         retry[r].waits[i] = retry[r].baseDelay * (2 ^ (i - 1))
    /\ retry[r].pc = "returned" =>
         LET k == Len(retry[r].errs)
         IN /\ k < retry[r].maxAttempts
            /\ retry[r].calls = k + 1
            /\ Len(retry[r].waits) = k
            /\ SumSeq(retry[r].waits) = retry[r].baseDelay * ((2 ^ k) - 1)
            /\ (k = 2 /\ retry[r].baseDelay = 100) => SumSeq(retry[r].waits) = 300

\* fn failed twice and then succeeded, with baseDelay = 100
C5_Witness ==
  \E r \in Runs : /\ retry[r].pc = "returned"
                  /\ retry[r].baseDelay = 100
                  /\ retry[r].waits = <<100, 200>>
                  /\ retry[r].calls = 3

\* C6: no wait follows the last allowed attempt: an exhausted call invoked
\* fn maxAttempts times, waited maxAttempts - 1 times and has no timer
\* pending; the call is never waiting once maxAttempts failures are in.
C6_NoWaitAfterLast ==
  \A r \in Runs : Started(r) =>
    /\ Len(retry[r].errs) = retry[r].maxAttempts =>
         /\ retry[r].pc = "raised"
         /\ retry[r].timers = 0
         /\ retry[r].calls = retry[r].maxAttempts
         /\ Len(retry[r].waits) = retry[r].maxAttempts - 1
    /\ retry[r].pc = "raised" => Len(retry[r].errs) = retry[r].maxAttempts

\* maxAttempts = 1: one invocation, no wait, raised
C6_Witness ==
  \E r \in Runs : /\ retry[r].pc = "raised"
                  /\ retry[r].maxAttempts = 1
                  /\ retry[r].calls = 1
                  /\ retry[r].waits = <<>>

\* C7: a call in which fn failed on every invocation made exactly
\* maxAttempts attempts, and two exhausted calls with the same maxAttempts
\* and baseDelay made the same attempts with the same waits whatever
\* errors fn raised in each.
C7_RetryIgnoresError ==
  \A r, q \in Runs :
    (/\ Started(r) /\ Started(q)
     /\ retry[r].pc = "raised" /\ retry[q].pc = "raised"
     /\ retry[r].maxAttempts = retry[q].maxAttempts
     /\ retry[r].baseDelay = retry[q].baseDelay) =>
      /\ retry[r].calls = retry[r].maxAttempts
      /\ retry[r].calls = retry[q].calls
      /\ retry[r].waits = retry[q].waits

\* two exhausted calls with equal arguments and different errors
C7_Witness ==
  /\ retry[1].pc = "raised" /\ retry[2].pc = "raised"
  /\ retry[1].maxAttempts = 3 /\ retry[2].maxAttempts = 3
  /\ retry[1].baseDelay = 50 /\ retry[2].baseDelay = 50
  /\ retry[1].errs = <<"e1", "e1", "e1">>
  /\ retry[2].errs = <<"e2", "e1", "e2">>

\* C27: when every invocation of fn completes and every timer wait
\* elapses, a call of retry that has been made eventually returns or
\* raises.
C27_RetryTerminates ==
  \A r \in Runs : (retry[r].pc # "idle") ~> RetryDone(r)

\* one call has returned at its third attempt and the other has raised
\* after three attempts, all waits elapsed
C27_Witness ==
  /\ retry[1].pc = "returned" /\ retry[1].calls = 3
  /\ retry[2].pc = "raised" /\ retry[2].calls = 3
  /\ retry[1].timers = 0 /\ retry[2].timers = 0
  /\ Len(retry[2].waits) = 2

\* C28: a call with maxAttempts <= 0 never invokes fn and never waits; it
\* returns no value and raises once, and what it raises is undefined, no
\* error of an attempt.
C28_NoAttemptRaisesUndefined ==
  \A r \in Runs :
    (retry[r].pc # "idle" /\ retry[r].maxAttempts <= 0) =>
      /\ retry[r].pc = "raised"
      /\ retry[r].calls = 0
      /\ retry[r].inflight = 0
      /\ retry[r].waits = <<>>
      /\ retry[r].timers = 0
      /\ retry[r].errs = <<>>
      /\ retry[r].result = None
      /\ retry[r].raises = 1
      /\ retry[r].thrown = Undefined
      /\ retry[r].thrown \notin Errors

\* retry was called with maxAttempts = 0 and with maxAttempts = -1, and
\* both calls have raised
C28_Witness ==
  /\ retry[1].pc = "raised" /\ retry[1].maxAttempts = 0
  /\ retry[2].pc = "raised" /\ retry[2].maxAttempts = 0 - 1
  /\ retry[2].baseDelay = 100


(***************************************************************************)
(* Properties of EnvironmentManager                                        *)
(***************************************************************************)
\* the operations that return the result of getConfig
ConfigOps == {"getConfig", "validateEnvironment", "logEnvironmentInfo"}
ReturnedConfig == lastOp.op \in ConfigOps /\ lastOp.kind = "ok"

Populated(cfg) ==
  /\ cfg.baseURL # <<>>
  /\ cfg.testUserEmailPrefix # <<>>
  /\ cfg.testUserPassword # <<>>

\* C8: every config returned by getConfig and every entry of the cache has
\* non-empty baseURL, testUserEmailPrefix and testUserPassword.
C8_ConfigsPopulated ==
  /\ \A n \in DOMAIN configCache : Populated(configCache[n])
  /\ ReturnedConfig => Populated(lastOp.config)

\* getConfig has just loaded and cached a config while the file of another
\* environment lacks a required value
C8_Witness ==
  /\ lastOp.op = "getConfig" /\ lastOp.kind = "ok"
  /\ lastOp.environment \in DOMAIN configCache
  /\ \E n \in FileNames : /\ n \notin DOMAIN configCache
                          /\ files[n] = FileWith(SrcEmptyUrl)

\* C9: once a config is cached for a name, every step keeps that very
\* entry (same object, same contents), and a getConfig(name) that has been
\* answered since was answered with that entry.
C9_GetConfigIdempotent ==
  [][\A n \in DOMAIN configCache :
       /\ n \in DOMAIN configCache'
       /\ configCache'[n] = configCache[n]
       /\ (lastOp'.op = "getConfig" /\ lastOp'.arg = n) =>
            /\ lastOp'.kind = "ok"
            /\ lastOp'.config = configCache[n]]_vars

\* getConfig("qa") is answered from the cache after the qa file was
\* rewritten with other contents, while another name is current
C9_Witness ==
  /\ lastOp.op = "getConfig" /\ lastOp.arg = "qa" /\ lastOp.kind = "ok"
  /\ "qa" \in DOMAIN configCache
  /\ lastOp.config = configCache["qa"]
  /\ configCache["qa"].baseURL = <<"https://x.test">>
  /\ files["qa"] = FileWith(SrcOther)
  /\ "staging" \in DOMAIN configCache
  /\ currentEnvironment = "production"

\* C10 as stated: the source of a name is read at most once, failed
\* resolutions included.
C10_ReadAtMostOnce == \A n \in AllNames : reads[n] <= 1

\* C10 as amended: a step reads the source of a name at most once and only
\* while no config is cached for the name; once a resolution of the name
\* has succeeded its source is never read again.
C10_NoReadOnceCached ==
  [][\A n \in AllNames :
       /\ reads'[n] \in {reads[n], reads[n] + 1}
       /\ n \in DOMAIN configCache => reads'[n] = reads[n]
       /\ (n \notin DOMAIN configCache /\ n \in DOMAIN configCache') =>
            reads'[n] = reads[n] + 1]_vars

\* qa was read twice (a failed resolution, then a successful one) and is
\* now answered from the cache
C10_Witness ==
  /\ reads["qa"] = 2
  /\ "qa" \in DOMAIN configCache
  /\ lastOp.op = "getConfig" /\ lastOp.arg = "qa" /\ lastOp.kind = "ok"


\* C11: the cache is append-only and write-once per key: every step of the
\* manager keeps each entry as it is and adds at most one new entry.
C11_CacheAppendOnly ==
  [][/\ \A n \in DOMAIN configCache :
          n \in DOMAIN configCache' /\ configCache'[n] = configCache[n]
     /\ Cardinality(DOMAIN configCache') <= Cardinality(DOMAIN configCache) + 1]_vars

\* two entries are cached, the files of both have changed since, and the
\* manager has been switched and logged afterwards
C11_Witness ==
  /\ DOMAIN configCache = {"qa", "staging"}
  /\ configCache["qa"].baseURL = <<"https://x.test">>
  /\ files["qa"] = FileWith(SrcOther)
  /\ ~files["staging"].exists
  /\ lastOp.op = "logEnvironmentInfo"
  /\ currentEnvironment = "qa"

\* lowercase of the names explored, written out
LowerTable(n) == IF n = "QA" THEN "qa" ELSE n

\* C12 as stated: a getConfig with a name outside the recognized set
\* resolves the lowercased name when that is recognized and staging
\* otherwise.
C12_GetConfigFallsBack ==
  (lastOp.op \in ConfigOps /\ lastOp.arg \in {"QA", "dev"}) =>
    lastOp.environment =
      (IF LowerTable(lastOp.arg) \in {"local", "qa", "staging", "production"}
       THEN LowerTable(lastOp.arg) ELSE "staging")

\* C12 as amended: initialize() lowercases the name from TEST_ENV or
\* ENVIRONMENT and selects staging, with a warning, when it is not
\* recognized, so the current environment is always a recognized one and
\* getConfig() without an argument resolves it; getConfig(name) with an
\* argument resolves that very name, neither lowercased nor replaced, and
\* fails with missing-source when the name has no file.
C12_LenientSelection ==
  /\ currentEnvironment \in {"local", "qa", "staging", "production"}
  /\ lastOp.op = "initialize" =>
       /\ lastOp.arg = LowerTable(IF lastOp.testEnv \notin {Unset, ""} THEN lastOp.testEnv
                                  ELSE IF lastOp.envVar \notin {Unset, ""} THEN lastOp.envVar
                                  ELSE "staging")
       /\ IF lastOp.arg \in {"local", "qa", "staging", "production"}
          THEN currentEnvironment = lastOp.arg /\ ~lastOp.warned
          ELSE currentEnvironment = "staging" /\ lastOp.warned
  /\ lastOp.op \in ConfigOps =>
       /\ lastOp.arg = NoArg => lastOp.environment = currentEnvironment
       /\ lastOp.arg # NoArg => lastOp.environment = lastOp.arg
       /\ lastOp.arg \in {"QA", "dev"} => lastOp.kind = "missing-source"

\* initialize() has just fallen back from the unrecognized name "dev"
C12_Witness ==
  /\ lastOp.op = "initialize"
  /\ lastOp.testEnv = "dev"
  /\ lastOp.warned
  /\ currentEnvironment = "staging"

\* a step in which getConfig (or a caller of it) ran for `lastOp'.environment`
ConfigCallStep == lastOp' # lastOp /\ lastOp'.op \in ConfigOps

\* C13: a getConfig of a recognized, uncached name whose file does not
\* exist fails with the file-not-found error and changes neither the
\* cache nor the current environment (nor the read count); as this holds
\* of every such call, later calls fail the same way until the file exists.
C13_MissingSourceFails ==
  [][(/\ ConfigCallStep
      /\ lastOp'.environment \in {"local", "qa", "staging", "production"}
      /\ lastOp'.environment \notin DOMAIN configCache
      /\ ~FileOf(lastOp'.environment).exists) =>
       /\ lastOp'.kind = "missing-source"
       /\ lastOp'.error = [class |-> "Error",
                           message |-> <<"\\u274C", " ",
                                         "Environment file not found:", " ",
                                         "<project>", "/environments/",
                                         lastOp'.environment, ".env">>]
       /\ configCache' = configCache
       /\ currentEnvironment' = currentEnvironment
       /\ reads' = reads
       /\ nextId' = nextId]_vars

\* getConfig("qa") failed for want of qa.env while staging is current and
\* cached
C13_Witness ==
  /\ lastOp.op = "getConfig" /\ lastOp.arg = "qa"
  /\ lastOp.kind = "missing-source"
  /\ ~files["qa"].exists
  /\ DOMAIN configCache = {"staging"}
  /\ currentEnvironment = "staging"

\* the first key of choice f that is not set, 0 when all are
FirstUnset(f) ==
  IF f[1] # "set" THEN 1 ELSE IF f[2] # "set" THEN 2
  ELSE IF f[3] # "set" THEN 3 ELSE IF f[4] # "set" THEN 4 ELSE 0

\* C14: when qa.env exists and a required key is absent or empty in it,
\* a resolution of qa has failed with the missing-required-key error whose
\* message names the (first such) key and the environment, and nothing is
\* cached for qa.
C14_MissingKeyFails ==
  \A f \in KeyChoices :
    (/\ files["qa"] = FileWith(SourceOf(f))
     /\ FirstUnset(f) # 0
     /\ lastOp.op = "getConfig"
     /\ lastOp.environment = "qa") =>
      LET key == <<"BASE_URL", "API_TIMEOUT", "TEST_USER_EMAIL_PREFIX",
                   "TEST_USER_PASSWORD">>[FirstUnset(f)]
      IN /\ lastOp.kind = "missing-required-key"
         /\ lastOp.key = key
         /\ lastOp.error = [class |-> "Error",
                            message |-> <<"\\u274C", " ",
                                          "Missing required env variable:", " ",
                                          key, " ", "in", " ", "qa", ".env">>]
         /\ "qa" \notin DOMAIN configCache

\* qa.env lacks TEST_USER_PASSWORD only, and getConfig of qa has failed
\* naming it
C14_Witness ==
  /\ lastOp.op = "getConfig" /\ lastOp.environment = "qa"
  /\ lastOp.kind = "missing-required-key"
  /\ lastOp.key = "TEST_USER_PASSWORD"
  /\ files["qa"] = FileWith(SourceOf([i \in 1..4 |-> IF i = 4 THEN "absent" ELSE "set"]))

\* what a caller reads off an error: after the cross mark its message
\* begins with a fixed text
Classify(error) ==
  CASE error.message[3] = "Environment file not found:" -> "missing-source"
    [] error.message[3] = "Missing required env variable:" -> "missing-required-key"
    [] OTHER -> "unknown"

\* C15: a resolution either gives a config or fails in one of two ways, and
\* the error alone tells which: its message says file-not-found exactly
\* when the file of the environment does not exist, and missing-variable
\* exactly when the file exists and lacks a required value. (The load of a
\* file that is removed between its existsSync and its readFileSync fails
\* in a third way, with the ENOENT error of the file system.)
C15_TwoDistinctFailures ==
  [][ConfigCallStep =>
       /\ lastOp'.kind \in {"ok", "missing-source", "missing-required-key"}
       /\ lastOp'.kind # "ok" =>
            /\ Classify(lastOp'.error) \in {"missing-source", "missing-required-key"}
            /\ Classify(lastOp'.error) = "missing-source" <=>
                 ~FileOf(lastOp'.environment).exists
            /\ Classify(lastOp'.error) = "missing-required-key" <=>
                 FileOf(lastOp'.environment).exists]_vars

\* C16: setEnvironment with an unrecognized name fails with the
\* invalid-name error and changes neither the current environment nor the
\* cache; with a recognized name it makes exactly that name current and
\* leaves the cache as it is.
C16_SetEnvironmentStrict ==
  [][/\ (lastOp' # lastOp /\ lastOp'.op = "setEnvironment") =>
          /\ configCache' = configCache
          /\ IF lastOp'.arg \in {"local", "qa", "staging", "production"}
             THEN lastOp'.kind = "ok" /\ currentEnvironment' = lastOp'.arg
             ELSE /\ lastOp'.kind = "invalid-name"
                  /\ lastOp'.error = [class |-> "Error",
                                      message |-> <<"\\u274C", " ",
                                                    "Invalid environment:", " ",
                                                    lastOp'.arg>>]
                  /\ currentEnvironment' = currentEnvironment
     /\ (lastOp'.op = "setEnvironment" /\ lastOp'.kind = "ok") =>
          currentEnvironment' = lastOp'.arg]_vars

\* setEnvironment("QA") was rejected while production is current and qa is
\* cached
C16_Witness ==
  /\ lastOp.op = "setEnvironment" /\ lastOp.arg = "QA"
  /\ lastOp.kind = "invalid-name"
  /\ currentEnvironment = "production"
  /\ "qa" \in DOMAIN configCache


\* C17 as stated: at process start, with no setEnvironment call made,
\* getCurrentEnvironment() returns 'staging'.
C17_StartsAtStaging ==
  lastOp.op = "getCurrentEnvironment" => lastOp.name = "staging"

\* the environment the variables TEST_ENV = t and ENVIRONMENT = e select
StartEnvironment(t, e) ==
  LET v == IF t \notin {Unset, ""} THEN t ELSE IF e \notin {Unset, ""} THEN e ELSE "staging"
  IN CASE v = "QA" -> "qa"
       [] v = "production" -> "production"
       [] OTHER -> "staging"

\* C17 as amended: at process start the import calls initialize(), which
\* makes current the lowercased value of TEST_ENV, or else of ENVIRONMENT,
\* when that is a recognized name, and 'staging' when neither is set or the
\* value is not recognized; with no setEnvironment call made,
\* getCurrentEnvironment() returns that name.
C17_StartsAtSelected ==
  [][/\ lastOp'.op = "initialize" =>
          currentEnvironment' = StartEnvironment(lastOp'.testEnv, lastOp'.envVar)
     /\ (initialized /\ lastOp'.op # "initialize") =>
          currentEnvironment' = currentEnvironment
     /\ lastOp'.op = "getCurrentEnvironment" =>
          lastOp'.name = currentEnvironment']_vars

\* started with TEST_ENV=QA, getCurrentEnvironment() has returned 'qa'
C17_Witness ==
  /\ lastOp.op = "getCurrentEnvironment"
  /\ lastOp.name = "qa"
  /\ currentEnvironment = "qa"

\* the last call is a getConfig() without an argument
GotCurrent == lastOp.op = "getConfig" /\ lastOp.arg = NoArg

\* C18 as stated: after a successful setEnvironment(n), a getConfig()
\* without an argument resolves n until the next successful setEnvironment.
C18_ResolvesLastSet ==
  (GotCurrent /\ watch.lastSet # None) =>
    /\ lastOp.environment = watch.lastSet
    /\ lastOp.kind = "ok" => lastOp.config.environment = watch.lastSet

\* C18 as amended: after a successful setEnvironment(n), a getConfig()
\* without an argument resolves n, and a config it returns has environment
\* n, until the next successful setEnvironment or the next call of
\* initialize(), which selects the environment anew.
C18_ResolvesLastSelected ==
  /\ (GotCurrent /\ watch.lastSet # None /\ ~watch.reinit) =>
       /\ lastOp.environment = watch.lastSet
       /\ lastOp.kind = "ok" => lastOp.config.environment = watch.lastSet
  /\ GotCurrent =>
       /\ lastOp.environment = currentEnvironment
       /\ lastOp.kind = "ok" => lastOp.config.environment = currentEnvironment
  /\ \A n \in DOMAIN configCache : configCache[n].environment = n

\* after setEnvironment("qa"), getConfig() returned the qa config although
\* a staging config was cached before
C18_Witness ==
  /\ GotCurrent /\ lastOp.kind = "ok"
  /\ watch.lastSet = "qa" /\ ~watch.reinit
  /\ lastOp.config.environment = "qa"
  /\ "staging" \in DOMAIN configCache
  /\ configCache["staging"].id < lastOp.config.id

\* the fields of an EnvironmentConfig
ConfigFields ==
  {"id", "environment", "baseURL", "apiTimeout", "retryCount", "headless",
   "slowMo", "testUserEmailPrefix", "testUserPassword", "reportTitle",
   "slackChannel", "enableScreenshots", "enableVideos", "enableTraces"}

Complete(cfg) == DOMAIN cfg = ConfigFields /\ Populated(cfg)

TaskGot(t) == watch.got[t].op = "getConfig" /\ watch.got[t].kind = "ok"

\* C19: tasks that resolve the same name in one process, in whatever
\* order their calls run, hold the same complete config, which is the
\* cache entry of the name; every cache entry is complete.
C19_TasksAgree ==
  /\ \A n \in DOMAIN configCache : Complete(configCache[n])
  /\ \A t \in Tasks : TaskGot(t) =>
       /\ Complete(watch.got[t].config)
       /\ watch.got[t].environment \in DOMAIN configCache
       /\ configCache[watch.got[t].environment] = watch.got[t].config
  /\ \A t, u \in Tasks :
       (TaskGot(t) /\ TaskGot(u)
        /\ watch.got[t].environment = watch.got[u].environment) =>
         watch.got[t].config = watch.got[u].config

\* both tasks hold the qa config although qa.env was rewritten between
\* their calls
C19_Witness ==
  /\ TaskGot("task1") /\ TaskGot("task2")
  /\ watch.got["task1"].environment = "qa"
  /\ watch.got["task2"].environment = "qa"
  /\ watch.got["task1"].arg # watch.got["task2"].arg
  /\ files["qa"] # FileWith(SrcValid)
  /\ watch.got["task1"].config.baseURL = <<"https://x.test">>

(***************************************************************************)
(* Properties of UserClient                                                *)
(***************************************************************************)
\* C20 as stated: when a login call returns, the client's token is the
\* token of the response body if the response is OK, and the value it had
\* before the call if the response is not OK.
C20_StoresOrKeeps ==
  [][\A k \in LoginSlots :
       (client.login[k].pc # "returned" /\ client'.login[k].pc = "returned") =>
         /\ client'.login[k].ok =>
              client'.token = client'.login[k].bodyToken
         /\ ~client'.login[k].ok =>
              client'.token = client.login[k].before]_vars

\* C20: when a login call returns a response, the client's token is the
\* token of the response body if the response is OK, and is left as it was
\* if the response is not OK: it then still has the value it had before
\* the call, unless something else changed it while the call was in flight.
C20_LoginStoresToken ==
  [][\A k \in LoginSlots :
       (client.login[k].pc # "returned" /\ client'.login[k].pc = "returned") =>
         /\ client'.login[k].ok =>
              /\ client'.token = client'.login[k].bodyToken
              /\ client'.token \in (Tokens \cup {Undefined})
         /\ ~client'.login[k].ok =>
              /\ client'.token = client.token
              /\ ~client.login[k].overlapped =>
                   client'.token = client.login[k].before]_vars

\* a login was refused after an earlier one had stored tokA: the token is
\* still tokA
C20_Witness ==
  \E k, j \in LoginSlots :
    /\ client.login[k].pc = "returned" /\ ~client.login[k].ok
    /\ client.login[k].before = "tokA"
    /\ client.login[j].pc = "returned" /\ client.login[j].ok
    /\ client.login[j].bodyToken = "tokA"
    /\ client.token = "tokA"
    /\ ~client.written

\* C21: once the test body has finished, having awaited its calls, and the
\* fixture has cleaned up, no user that the test registered through the
\* fixture's client exists on the server.
C21_FixtureCleansUp ==
  (session.pc = "done" /\ session.awaited) =>
    session.registered \cap session.users = {}

(***************************************************************************)
(* Properties of the source format                                         *)
(***************************************************************************)
\* a line that is blank or whose first character that is not a space is '#'
Ignored(line) ==
  \/ \A i \in 1..Len(line) : line[i] = " "
  \/ \E i \in 1..Len(line) : line[i] = "#" /\ \A j \in 1..(i - 1) : line[j] = " "

\* the lines of a source, and the source without its ignored lines
LinesOf(content) == Split(content, "\n")

RECURSIVE KeptLines(_)
KeptLines(lines) ==
  IF lines = <<>> THEN <<>>
  ELSE IF Ignored(Head(lines)) THEN KeptLines(Tail(lines))
  ELSE <<Head(lines)>> \o KeptLines(Tail(lines))

Stripped(content) == Join(KeptLines(LinesOf(content)), "\n")

Parsed == parse.pc = "done"

\* C22: blank lines and lines starting with '#' are ignored: the mapping
\* parsed from a source is the mapping parsed from the source without
\* those lines, and so is the outcome of the resolution; the example
\* source parses to BASE_URL = https://x.test and API_TIMEOUT = 5000 only,
\* and with the other two required keys added it resolves to baseURL =
\* "https://x.test" and apiTimeout = 5000.
C22_IgnoresBlankAndComments ==
  Parsed =>
    /\ parse.envVars = ParseEnvFile(Stripped(parse.content))
    /\ \A k \in DOMAIN parse.envVars : k # <<>> /\ Head(k) # "#"
    /\ parse.out.kind = "ok" <=>
         LoadEnvironmentFile(parse.environment, FileWith(Stripped(parse.content)),
                             FileWith(Stripped(parse.content)), 0).kind = "ok"
    /\ parse.content = SrcExample =>
         /\ DOMAIN parse.envVars = {<<"BASE_URL">>, <<"API_TIMEOUT">>}
         /\ parse.envVars[<<"BASE_URL">>] = <<"https://x.test">>
         /\ parse.envVars[<<"API_TIMEOUT">>] = <<"5000">>
    /\ parse.content = SrcValid =>
         /\ parse.out.kind = "ok"
         /\ parse.out.config.baseURL = <<"https://x.test">>
         /\ parse.out.config.apiTimeout = 5000

\* a source whose lines are a comment, a pair and an indented comment has
\* been parsed to the one pair
C22_Witness ==
  /\ Parsed
  /\ parse.content = <<"#", " ", "comment", "\n", "RETRY_COUNT", "=", "9", "\n",
                       " ", "#", "RETRY_COUNT", "=", "1">>
  /\ parse.envVars = (<<"RETRY_COUNT">> :> <<"9">>)

\* the key and the value a line stands for: the text before the first '='
\* of the line without its surrounding spaces, and the text after that '='
\* without its surrounding spaces ('' for a line without '=')
KeyOfLine(line) ==
  LET t == Trim(line)
      i == IndexOf(t, "=")
  IN IF i = 0 THEN t ELSE SubSeq(t, 1, i - 1)

ValueOfLine(line) ==
  LET t == Trim(line)
      i == IndexOf(t, "=")
  IN IF i = 0 THEN <<>> ELSE Trim(SubSeq(t, i + 1, Len(t)))

\* line i of `lines` is a pair for key k
PairFor(lines, i, k) == ~Ignored(lines[i]) /\ KeyOfLine(lines[i]) = k

\* the last line of `lines` that is a pair for key k, 0 when there is none
LastPairFor(lines, k) ==
  IF \E i \in 1..Len(lines) : PairFor(lines, i, k)
  THEN CHOOSE i \in 1..Len(lines) :
         PairFor(lines, i, k) /\ \A j \in (i + 1)..Len(lines) : ~PairFor(lines, j, k)
  ELSE 0

\* C23: the value parsed for a key is that of the last line with the key;
\* a resolved config has the retryCount of the last RETRY_COUNT line (9
\* for "RETRY_COUNT=1\nRETRY_COUNT=9"), and a source whose last BASE_URL
\* line has an empty value does not resolve: it fails naming BASE_URL.
C23_LastOccurrenceWins ==
  Parsed =>
    LET lines == LinesOf(parse.content)
        rc    == LastPairFor(lines, <<"RETRY_COUNT">>)
        bu    == LastPairFor(lines, <<"BASE_URL">>)
    IN /\ \A k \in DOMAIN parse.envVars :
            /\ LastPairFor(lines, k) # 0
            /\ parse.envVars[k] = ValueOfLine(lines[LastPairFor(lines, k)])
       /\ (parse.out.kind = "ok" /\ rc # 0) =>
            parse.out.config.retryCount =
              (IF ValueOfLine(lines[rc]) = <<"9">> THEN 9 ELSE 1)
       /\ (bu # 0 /\ ValueOfLine(lines[bu]) = <<>>) =>
            /\ parse.out.kind = "missing-required-key"
            /\ parse.out.key = "BASE_URL"

\* a source with the required keys, RETRY_COUNT=1 and then RETRY_COUNT=9
\* has resolved with retryCount = 9
C23_Witness ==
  /\ Parsed
  /\ parse.content = RequiredBlock \o <<"RETRY_COUNT", "=", "1", "\n", "RETRY_COUNT", "=", "9">>
  /\ parse.out.kind = "ok"
  /\ parse.out.config.retryCount = 9

\* C24: every line that is not ignored and has a key gives the mapping an
\* entry under the text before its first '=', and no other entry exists;
\* the value of the entry, taken from the last such line, is the text after
\* the first '=' with the spaces around it removed and every later '=' kept.
C24_ValueAfterFirstEquals ==
  Parsed =>
    LET lines == LinesOf(parse.content)
    IN /\ DOMAIN parse.envVars =
            {KeyOfLine(lines[i]) : i \in {j \in 1..Len(lines) :
                                           /\ ~Ignored(lines[j])
                                           /\ KeyOfLine(lines[j]) # <<>>}}
       /\ \A i \in 1..Len(lines) :
            (/\ ~Ignored(lines[i])
             /\ KeyOfLine(lines[i]) # <<>>
             /\ \A j \in (i + 1)..Len(lines) : ~PairFor(lines, j, KeyOfLine(lines[i]))) =>
              parse.envVars[KeyOfLine(lines[i])] = ValueOfLine(lines[i])

\* the line " TOKEN = a=b " has been parsed to the value a=b under the key
\* "TOKEN " (the key keeps the space before '=')
C24_Witness ==
  /\ Parsed
  /\ parse.content = <<" ", "TOKEN", " ", "=", " ", "a", "=", "b", " ">>
  /\ parse.envVars = (<<"TOKEN", " ">> :> <<"a", "=", "b">>)

\* the optional keys of a source
OptionalKeys ==
  {"RETRY_COUNT", "HEADLESS", "SLOW_MO", "REPORT_TITLE", "SLACK_CHANNEL",
   "ENABLE_SCREENSHOTS", "ENABLE_VIDEOS", "ENABLE_TRACES"}

\* the source has a line for key k / the value of its last line for k
HasKey(lines, k) == LastPairFor(lines, <<k>>) # 0
ValueOfKey(lines, k) == ValueOfLine(lines[LastPairFor(lines, <<k>>)])
IsLiteral(lines, k, lit) == HasKey(lines, k) /\ ValueOfKey(lines, k) = <<lit>>

\* C25: a config resolved from a source with the four required keys has
\* headless = false exactly when HEADLESS is the literal "false" and each
\* enable flag = true exactly when its key is the literal "true"; when the
\* source has no optional key, retryCount = 1, headless = true, slowMo = 0,
\* reportTitle = "<environment> Test Results", slackChannel = "#tests" and
\* the three enable flags are false.
C25_OptionalDefaults ==
  (lastOp.op = "getConfig" /\ lastOp.kind = "ok") =>
    LET env   == lastOp.environment
        cfg   == lastOp.config
        lines == LinesOf(FileOf(env).content)
    IN /\ cfg.headless = ~IsLiteral(lines, "HEADLESS", "false")
       /\ cfg.enableScreenshots = IsLiteral(lines, "ENABLE_SCREENSHOTS", "true")
       /\ cfg.enableVideos = IsLiteral(lines, "ENABLE_VIDEOS", "true")
       /\ cfg.enableTraces = IsLiteral(lines, "ENABLE_TRACES", "true")
       /\ (\A k \in OptionalKeys : ~HasKey(lines, k)) =>
            /\ cfg.retryCount = 1
            /\ cfg.headless = TRUE
            /\ cfg.slowMo = 0
            /\ cfg.reportTitle = <<env, " ", "Test", " ", "Results">>
            /\ cfg.slackChannel = <<"#", "tests">>
            /\ cfg.enableScreenshots = FALSE
            /\ cfg.enableVideos = FALSE
            /\ cfg.enableTraces = FALSE

\* staging.env holds the four required keys only and has been resolved
C25_Witness ==
  /\ lastOp.op = "getConfig" /\ lastOp.kind = "ok"
  /\ lastOp.environment = "staging"
  /\ files["staging"] = FileWith(RequiredBlock)
  /\ lastOp.config.reportTitle = <<"staging", " ", "Test", " ", "Results">>
  /\ lastOp.config.headless

\* C26: when qa.env holds the other three required keys and no
\* API_TIMEOUT line, a resolution of qa gives a config with apiTimeout =
\* 30000.
C26_ApiTimeoutDefaults ==
  (/\ lastOp.op = "getConfig"
   /\ lastOp.environment = "qa"
   /\ files["qa"] = FileWith(SourceOf(<<"set", "absent", "set", "set">>))) =>
    /\ lastOp.kind = "ok"
    /\ lastOp.config.apiTimeout = 30000

(***************************************************************************)
(* Properties of the userClient fixture and of UserClient's token          *)
(***************************************************************************)
\* C29: the client's token is '' as long as no login was called and the
\* test has not assigned the field, whatever register, profile,
\* updateProfile, logout and delete calls were made and answered; among the
\* client's operations only the login that stores the token of its OK
\* response changes it; every authenticated request carries the token the
\* client holds when the method is called, so the answer to a logout or a
\* delete leaves the client holding, and sending, the token it had.
C29_TokenFrame ==
  [][/\ (~client'.written /\ \A k \in LoginSlots : client'.login[k].pc = "idle") =>
          client'.token = ""
     /\ client'.token # client.token =>
          \/ \E k \in LoginSlots :
               /\ client.login[k].pc = "parsing" /\ client.login[k].ok
               /\ client'.login[k].pc = "returned"
               /\ client'.token = client.login[k].bodyToken
          \/ /\ client'.written
             /\ session' = session
             /\ \A k \in LoginSlots : client'.login[k].pc = client.login[k].pc
     /\ \A c \in {0, 1} :
          (session'.calls[c].pc = "sent" /\ session.calls[c].pc # "sent"
           /\ session'.calls[c].op # "register") =>
            /\ session'.calls[c].auth = client.token
            /\ client'.token = client.token
     /\ \A c \in {0, 1} :
          (session.calls[c].pc = "sent" /\ session'.calls[c].pc # "sent") =>
            client'.token = client.token]_vars

\* after a logout that the server accepted, profile() was sent with the old
\* token and refused, and the client still holds that token
C29_Witness ==
  /\ session.last.op = "profile"
  /\ session.last.status = 401
  /\ session.last.auth = "tokB"
  /\ client.token = "tokB"
  /\ ~client.written
  /\ "tokB" \in session.issued
  /\ session.users = {"alice"}

(***************************************************************************)
(* Properties of waitForApiResponse                                        *)
(***************************************************************************)
PollDone == poll.pc \in {"returned", "raised"}
Outcomes(p) == {p.polls[i].outcome : i \in 1..Len(p.polls)}

\* the polls run one after the other, and a response is returned only if
\* the condition held of it and of no response polled before it
PollsSequentially ==
  /\ poll.inflight <= 1
  /\ \A i \in 1..(Len(poll.polls) - 1) : poll.polls[i].outcome = "false"
  /\ \A i \in 1..Len(poll.polls) :
       poll.polls[i].sentAt - poll.startTime < poll.timeout
  /\ poll.pc = "returned" =>
       /\ poll.result = Len(poll.polls)
       /\ poll.polls[poll.result].outcome = "true"
       /\ poll.thrown = NotThrown
  /\ (poll.pc # "idle" /\ poll.timeout <= 0) =>
       /\ poll.pc = "raised"
       /\ poll.polls = <<>>
       /\ poll.thrown = TimeoutError(poll.timeout)

\* C30 as stated: polls are sequential, only the first response that
\* satisfies the condition is returned, and a call that ended without a
\* poll satisfying the condition raised the timeout error.
C30_TimeoutOrFirstMatch ==
  /\ PollsSequentially
  /\ (PollDone /\ "true" \notin Outcomes(poll)) =>
       /\ poll.pc = "raised"
       /\ poll.thrown = TimeoutError(poll.timeout)

\* C30 as amended: polls are sequential, only the first response that
\* satisfies the condition is returned, and a call that ended without a
\* poll satisfying the condition raised: the error of the request or of the
\* condition evaluation that raised, at once and without a further poll,
\* or else the timeout error, once the timeout had elapsed and every poll
\* had failed the condition.
C30_TimeoutFirstMatchOrError ==
  /\ PollsSequentially
  /\ (PollDone /\ "true" \notin Outcomes(poll)) =>
       /\ poll.pc = "raised"
       /\ poll.result = 0
       /\ IF "failed" \in Outcomes(poll)
          THEN /\ poll.thrown.kind = "error"
               /\ poll.polls[Len(poll.polls)].outcome = "failed"
          ELSE /\ poll.thrown = TimeoutError(poll.timeout)
               /\ poll.now - poll.startTime >= poll.timeout
               /\ \A i \in 1..Len(poll.polls) : poll.polls[i].outcome = "false"

\* with timeout = 1200 three polls failed the condition, the last one sent
\* before and answered after the timeout, and the timeout error was raised
C30_Witness ==
  /\ poll.pc = "raised"
  /\ poll.timeout = 1200
  /\ Len(poll.polls) = 3
  /\ poll.thrown = TimeoutError(1200)
  /\ poll.polls[3].sentAt < 1200
  /\ poll.now > 1200

====
